---- MODULE Spec2Model ----
(***************************************************************************)
(* A model of the APIClient of src/src/base/api_client.py: the client      *)
(* state (base URL, token, default headers, retry configuration), its      *)
(* setters and status query, and the retry loop of _make_request.          *)
(*                                                                         *)
(* Strings are sequences of atoms: an atom stands for a block of           *)
(* characters, "/" stands for itself, and <<>> is the empty string.        *)
(* Durations are fixed-point numbers in units of 1/Scale second.           *)
(***************************************************************************)
EXTENDS Integers, Sequences, FiniteSets, TLC

VARIABLES
    base_url,         \* self.base_url
    api_key,          \* self.api_key (None or a string)
    session_headers,  \* self.session.headers, a case-insensitive mapping
    timeout,          \* self.timeout
    max_retries,      \* self.max_retries
    retry_delay,      \* self.retry_delay, in units of 1/Scale second
    pc,               \* position of the caller: "idle", "loop", "returned", "raised"
    attempt,          \* the loop variable of _make_request
    method,           \* the method of the dispatch in progress
    endpoint,         \* the endpoint argument of the dispatch in progress
    headers,          \* the per-request headers of the dispatch in progress
    url,              \* the URL computed by _make_request
    request_headers,  \* the merged headers computed by _make_request
    sent,             \* the arguments of every session.request call of the dispatch
    events,           \* what the dispatch did, in order: logs, requests, sleeps
    result,           \* the response returned by _make_request
    raised,           \* the exception raised by _make_request
    last_token,       \* the argument of the latest set_api_key call
    last_base,        \* the base_url argument of the constructor or the latest set_base_url
    snapshot,         \* the snapshot the latest get_status call returned, as the caller holds it
    taken,            \* that snapshot as it was when it was returned
    prev_status,      \* the snapshot of the call before, when no setter ran in between
    clean,            \* get_status was called and no setter ran since
    before,           \* the client state before the latest get_status call
    health,           \* what the latest initialize() call did
    json_value,       \* the value returned by get_json / post_json
    json_error,       \* the exception raised by get_json / post_json
    cfg_made,         \* a Config object exists: its constructor returned
    config,           \* Config._config
    config_file,      \* Config._config_file
    files,            \* the text of the file at each path, or Missing
    environ,          \* os.environ, as its items in order
    cfg_error,        \* the exception raised by the latest Config call
    cfg_before,       \* Config._config before the latest Config call
    cfg_last,         \* the latest Config call and its arguments
    writes,           \* every (key, value) stored in Config._config so far, in order
    disk,             \* the bytes of the file at each path DataProcessor uses, or NoFile
    dp_last,          \* the latest DataProcessor call and its arguments
    dp_result,        \* what that call returned or raised
    dp_written,       \* what the latest write_json / write_text to each path was given
    vd_call,          \* the arguments of the latest validate_data call
    vd_result,        \* what that call returned
    tr_call,          \* the arguments of the StringUtils.truncate call
    tr_result         \* what that call returned

clientVars == <<base_url, api_key, session_headers, timeout, max_retries, retry_delay>>
dispatchVars ==
    <<pc, attempt, method, endpoint, headers, url, request_headers, sent, events, result, raised>>
snapVars == <<snapshot, taken, prev_status, clean, before>>
jsonVars == <<json_value, json_error>>
configVars ==
    <<cfg_made, config, config_file, files, environ, cfg_error, cfg_before, cfg_last, writes>>
\* what belongs to the other classes of the package
diskVars == <<disk, dp_last, dp_result, dp_written>>
validateVars == <<vd_call, vd_result>>
stringVars == <<tr_call, tr_result>>
otherVars == <<configVars, diskVars, validateVars, stringVars>>
\* what _make_request neither reads nor writes
restVars == <<last_base, snapVars, health, jsonVars, otherVars>>
vars == <<clientVars, dispatchVars, last_token, restVars>>

----------------------------------------------------------------------------
(* Bounds of the model *)

\* largest max_retries a client is constructed with
MaxRetries == 2

\* resolution of the fixed-point durations: units per second
Scale == 2

----------------------------------------------------------------------------
(* Values *)

None == <<"<None>">>

EmptyStr == << >>

Tokens == {EmptyStr, <<"abc">>, <<"xyz">>}

\* inputs of the constructor and of set_base_url
BaseUrlArgs ==
    {EmptyStr,
     <<"http:", "/", "/", "h">>,
     <<"http:", "/", "/", "h", "/">>,
     <<"http:", "/", "/", "h", "/", "/">>}

Endpoints == {<<"x">>, <<"/", "x">>}

Methods == {"GET", "POST"}

\* retry_delay values: less than a second, one second, more than a second
RetryDelays == {1, Scale, Scale + 1}

DefaultTimeout == 30

NoHeader == "<absent>"

\* values of a Retry-After response header
RetryAfterValues == {"2", "-1", "1.5", "Wed, 21 Oct 2015 07:28:00 GMT"}

\* the strings int() accepts, with their values
IntLiterals == [s \in {"2", "-1"} |-> IF s = "2" THEN 2 ELSE 0 - 1]

Causes == {"ConnectionError", "Timeout"}

Response(status, retry_after) ==
    [kind |-> "response", status |-> status, retry_after |-> retry_after, cause |-> ""]

Failure(cause) ==
    [kind |-> "exception", status |-> 0, retry_after |-> NoHeader, cause |-> cause]

NoResponse == [kind |-> "none", status |-> 0, retry_after |-> NoHeader, cause |-> ""]

NoError == [exc |-> "none", cause |-> ""]

\* the timeout of the health check of initialize()
HealthTimeout == 5

NoHealth ==
    [called |-> FALSE, base |-> EmptyStr, sent |-> <<>>, out |-> NoResponse,
     returned |-> FALSE, propagated |-> FALSE]

NoValue == <<"<no value>">>

\* what one call of session.request can produce
Outcomes ==
    {Response(s, NoHeader) : s \in {200, 301, 404, 429, 499, 500, 503}}
        \cup {Response(429, h) : h \in RetryAfterValues}
        \cup {Response(503, "2")}
        \cup {Failure(c) : c \in Causes}

----------------------------------------------------------------------------
(* Strings *)

\* only one trailing character removed
rstrip_Once(s, c) ==
    IF Len(s) > 0 /\ s[Len(s)] = c THEN SubSeq(s, 1, Len(s) - 1) ELSE s

RECURSIVE rstrip(_, _)
rstrip(s, c) ==
    IF Len(s) > 0 /\ s[Len(s)] = c THEN rstrip(SubSeq(s, 1, Len(s) - 1), c) ELSE s

RECURSIVE lstrip(_, _)
lstrip(s, c) ==
    IF Len(s) > 0 /\ s[1] = c THEN lstrip(Tail(s), c) ELSE s

\* bool(x) of an Optional[str]
Bool(x) == x # None /\ Len(x) > 0

\* URLs are sequences of atoms: a scheme, "/", and the text between slashes
Schemes == {"http:", "https:"}

HasScheme(u) == Len(u) > 0 /\ u[1] \in Schemes

\* urlparse: the scheme and the network location, "http:" "/" "/" host
Authority(u) ==
    IF HasScheme(u) /\ Len(u) >= 4 /\ u[2] = "/" /\ u[3] = "/" THEN SubSeq(u, 1, 4)
    ELSE <<>>

\* urlparse: the path
PathOf(u) == SubSeq(u, Len(Authority(u)) + 1, Len(u))

\* str.split('/')
RECURSIVE SplitPath(_)
SplitPath(s) ==
    IF \A i \in 1..Len(s) : s[i] # "/" THEN <<s>>
    ELSE LET i == CHOOSE j \in 1..Len(s) : s[j] = "/" /\ \A k \in 1..(j - 1) : s[k] # "/"
         IN  <<SubSeq(s, 1, i - 1)>> \o SplitPath(SubSeq(s, i + 1, Len(s)))

\* '/'.join(segments)
RECURSIVE JoinPath(_)
JoinPath(segs) ==
    IF segs = <<>> THEN <<>>
    ELSE IF Len(segs) = 1 THEN segs[1]
    ELSE segs[1] \o <<"/">> \o JoinPath(Tail(segs))

\* urljoin: "." is skipped, ".." drops the segment before it, if there is one
RECURSIVE ResolveDots(_, _)
ResolveDots(segs, acc) ==
    IF segs = <<>> THEN acc
    ELSE IF segs[1] = <<"..">>
         THEN ResolveDots(Tail(segs), IF acc = <<>> THEN acc ELSE SubSeq(acc, 1, Len(acc) - 1))
    ELSE IF segs[1] = <<".">> THEN ResolveDots(Tail(segs), acc)
    ELSE ResolveDots(Tail(segs), Append(acc, segs[1]))

\* urllib.parse.urljoin(base, rel) for a rel without network location, query
\* or fragment: a rel with a scheme replaces the base; otherwise the path of
\* rel is appended to the directory of the base path, empty inner segments are
\* dropped and the dot segments resolved
urljoin(base, rel) ==
    IF base = <<>> THEN rel
    ELSE IF rel = <<>> THEN base
    ELSE IF HasScheme(rel) THEN rel
    ELSE LET bparts == SplitPath(PathOf(base))
             base_parts == IF bparts[Len(bparts)] # <<>>
                           THEN SubSeq(bparts, 1, Len(bparts) - 1) ELSE bparts
             all == IF rel[1] = "/" THEN SplitPath(rel) ELSE base_parts \o SplitPath(rel)
             segments == IF Len(all) < 2 THEN all
                         ELSE <<all[1]>>
                                \o SelectSeq(SubSeq(all, 2, Len(all) - 1), LAMBDA g : g # <<>>)
                                \o <<all[Len(all)]>>
             resolved == ResolveDots(segments, <<>>)
                            \o (IF segments[Len(segments)] \in {<<".">>, <<"..">>}
                                THEN <<<<>>>> ELSE <<>>)
             path == IF JoinPath(resolved) = <<>> THEN <<"/">> ELSE JoinPath(resolved)
         IN  Authority(base)
                \o (IF Authority(base) # <<>> /\ path[1] # "/" THEN <<"/">> ELSE <<>>)
                \o path

Bearer(t) == <<"Bearer ">> \o t

----------------------------------------------------------------------------
(* Headers: requests' CaseInsensitiveDict maps the lower-cased name to the  *)
(* name as last written and its value.                                      *)

Lower(k) ==
    CASE k \in {"Content-Type", "content-type"} -> "content-type"
      [] k = "User-Agent" -> "user-agent"
      [] k \in {"Authorization", "authorization"} -> "authorization"
      [] k = "X-Request-Id" -> "x-request-id"

EmptyHeaders == [n \in {} |-> <<>>]

\* CaseInsensitiveDict.__setitem__
SetHeader(d, k, v) ==
    [n \in DOMAIN d \cup {Lower(k)} |-> IF n = Lower(k) THEN <<k, v>> ELSE d[n]]

\* dict.update(items): the items are written in order
RECURSIVE UpdateHeaders(_, _)
UpdateHeaders(d, items) ==
    IF items = <<>> THEN d
    ELSE UpdateHeaders(SetHeader(d, items[1][1], items[1][2]), Tail(items))

\* the per-request headers a caller passes: None or a dict, as its items in order
HeaderArgs ==
    {<<>>,
     <<<<"X-Request-Id", <<"1">>>>>>,
     <<<<"authorization", <<"Basic ", "u">>>>>>,
     <<<<"Content-Type", <<"text/plain">>>>, <<"content-type", <<"text/csv">>>>>>}

\* request_headers = self.session.headers.copy(); if headers: update(headers)
MergeHeaders_DefaultsWin(defaults, hs) ==
    LET given == UpdateHeaders(EmptyHeaders, hs)
    IN  [n \in DOMAIN defaults \cup DOMAIN given |->
            IF n \in DOMAIN defaults THEN defaults[n] ELSE given[n]]

MergeHeaders(defaults, hs) ==
    IF hs # <<>> THEN UpdateHeaders(defaults, hs) ELSE defaults

----------------------------------------------------------------------------
(* The client: constructor, setters, status *)

\* the default headers the constructor sets
ConstructorHeaders(key) ==
    LET defaults ==
            UpdateHeaders(EmptyHeaders,
                <<<<"Content-Type", <<"application/json">>>>,
                  <<"User-Agent", <<"APIClient", "/1.0">>>>>>)
    IN  IF Bool(key) THEN SetHeader(defaults, "Authorization", Bearer(key))
        ELSE defaults

\* APIClient(base_url, api_key, timeout, max_retries, retry_delay)
Construct(b, key, t, n, d) ==
    /\ base_url = rstrip(b, "/")
    /\ api_key = key
    /\ timeout = t
    /\ max_retries = n
    /\ retry_delay = d
    /\ session_headers = ConstructorHeaders(key)
    /\ pc = "idle"
    /\ attempt = 0
    /\ method = ""
    /\ endpoint = EmptyStr
    /\ headers = <<>>
    /\ url = EmptyStr
    /\ request_headers = EmptyHeaders
    /\ sent = <<>>
    /\ events = <<>>
    /\ result = NoResponse
    /\ raised = NoError
    /\ last_token = None
    /\ last_base = b
    /\ snapshot = <<>>
    /\ taken = <<>>
    /\ prev_status = <<>>
    /\ clean = FALSE
    /\ before = <<>>
    /\ health = NoHealth
    /\ json_value = NoValue
    /\ json_error = NoError

has_api_key == Bool(api_key)

\* lines 305-311 with the token put into the snapshot
StatusOf_Leaky(b, key, t, n, d) ==
    [base_url |-> b,
     has_api_key |-> Bool(key),
     api_key |-> key,
     timeout |-> t,
     max_retries |-> n,
     retry_delay |-> d]

\* lines 305-311: the dict get_status builds from the client's attributes
StatusOf(b, key, t, n, d) ==
    [base_url |-> b,
     has_api_key |-> Bool(key),
     timeout |-> t,
     max_retries |-> n,
     retry_delay |-> d]

get_status == StatusOf(base_url, api_key, timeout, max_retries, retry_delay)

\* a snapshot the caller holds while the client becomes `current`: a view of the
\* client's attributes instead of a dict of their values
HeldSnapshot_LiveView(held, current) ==
    IF held = <<>> THEN held ELSE <<current>>

\* the dict of line 305 is a new object whose values are immutable
HeldSnapshot(held, current) == held

set_api_key(t) ==
    /\ pc = "idle"
    /\ api_key' = t
    /\ session_headers' = SetHeader(session_headers, "Authorization", Bearer(t))
    /\ last_token' = t
    /\ snapshot' = HeldSnapshot(snapshot, StatusOf(base_url, t, timeout, max_retries, retry_delay))
    /\ clean' = FALSE
    /\ UNCHANGED <<base_url, timeout, max_retries, retry_delay, dispatchVars>>
    /\ UNCHANGED <<last_base, taken, prev_status, before, health, jsonVars, otherVars>>

\* lines 295-296 with the session's headers set up anew
set_base_url_ResetsHeaders(b) ==
    /\ pc = "idle"
    /\ base_url' = rstrip(b, "/")
    /\ last_base' = b
    /\ session_headers' = ConstructorHeaders(None)
    /\ snapshot' = HeldSnapshot(snapshot,
                    StatusOf(rstrip(b, "/"), api_key, timeout, max_retries, retry_delay))
    /\ clean' = FALSE
    /\ UNCHANGED <<api_key, timeout, max_retries, retry_delay, dispatchVars, last_token>>
    /\ UNCHANGED <<taken, prev_status, before, health, jsonVars, otherVars>>

set_base_url(b) ==
    /\ pc = "idle"
    /\ base_url' = rstrip(b, "/")
    /\ last_base' = b
    /\ snapshot' = HeldSnapshot(snapshot,
                    StatusOf(rstrip(b, "/"), api_key, timeout, max_retries, retry_delay))
    /\ clean' = FALSE
    /\ UNCHANGED <<api_key, session_headers, timeout, max_retries, retry_delay,
                   dispatchVars, last_token>>
    /\ UNCHANGED <<taken, prev_status, before, health, jsonVars, otherVars>>

\* get_status(): the caller receives the snapshot
GetStatus ==
    /\ pc = "idle"
    /\ snapshot' = <<StatusOf(base_url, api_key, timeout, max_retries, retry_delay)>>
    /\ taken' = snapshot'
    /\ prev_status' = (IF clean THEN snapshot ELSE <<>>)
    /\ clean' = TRUE
    /\ before' = clientVars
    /\ UNCHANGED <<clientVars, dispatchVars, last_token, last_base, health, jsonVars, otherVars>>

\* lines 73-84: True for every response, False when the request raises
InitializeResult_Only200(out) == out.kind = "response" /\ out.status = 200

InitializeResult(out) == out.kind = "response"

\* line 72: self.session.get(f"{self.base_url}/health", timeout=5)
HealthRequest ==
    [method |-> "GET", url |-> base_url \o <<"/", "health">>, timeout |-> HealthTimeout]

\* initialize(): no request without a base URL, else one health check
Initialize(out) ==
    /\ pc = "idle"
    /\ health' = IF base_url = EmptyStr
                 THEN [called |-> TRUE, base |-> base_url, sent |-> <<>>,
                       out |-> NoResponse, returned |-> TRUE, propagated |-> FALSE]
                 ELSE [called |-> TRUE, base |-> base_url, sent |-> <<HealthRequest>>,
                       out |-> out, returned |-> InitializeResult(out),
                       propagated |-> FALSE]
    /\ UNCHANGED <<clientVars, dispatchVars, last_token, last_base, snapVars, jsonVars, otherVars>>

----------------------------------------------------------------------------
(* The retry policy of _make_request *)

\* line 143
IsRateLimited(status) == status = 429

\* line 150
IsRetryableServerError_AnyError(status, a) == status >= 400 /\ a < max_retries

IsRetryableServerError_OffByOne(status, a) == status >= 500 /\ a <= max_retries

IsRetryableServerError(status, a) == status >= 500 /\ a < max_retries

\* line 158
CanRetryFailure(a) == a < max_retries

\* lines 152 and 160: retry_delay * (attempt + 1)
Backoff_Constant(a) == retry_delay

Backoff(a) == retry_delay * (a + 1)

\* int(x) of a float, in seconds: truncation
IntOfFloat(x) == x \div Scale

\* whether int(s) accepts the string s
IsIntLiteral(s) == s \in DOMAIN IntLiterals

\* line 144: int(response.headers.get('Retry-After', self.retry_delay)), in seconds
RetryAfterSeconds_IgnoresHeader(out) == IntOfFloat(retry_delay)

RetryAfterSeconds(out) ==
    IF out.retry_after = NoHeader THEN IntOfFloat(retry_delay)
    ELSE IntLiterals[out.retry_after]

\* time.sleep(seconds) of a whole number of seconds, in units
SecondsToUnits(k) == k * Scale

\* line 163: a bare raise re-raises the exception being handled
Reraise_Generic(e) == [exc |-> "RequestException", cause |-> "Max retries exceeded"]

Reraise(e) == [exc |-> "RequestException", cause |-> e.cause]
----------------------------------------------------------------------------
(* _make_request *)

Ev(kind, n, out, d) == [kind |-> kind, n |-> n, out |-> out, d |-> d]

\* what every iteration starts with: the debug trace, the request, and for a
\* response the trace of its status
Begin_ZeroBased(out) ==
    events \o <<[kind |-> "debug", n |-> attempt, out |-> NoResponse, d |-> 0,
                 method |-> method, url |-> url],
                Ev("request", attempt + 1, out, 0)>>
           \o (IF out.kind = "response"
               THEN <<Ev("debug_status", attempt + 1, out, 0)>> ELSE <<>>)

Begin(out) ==
    events \o <<[kind |-> "debug", n |-> attempt + 1, out |-> NoResponse, d |-> 0,
                 method |-> method, url |-> url],
                Ev("request", attempt + 1, out, 0)>>
           \o (IF out.kind = "response"
               THEN <<Ev("debug_status", attempt + 1, out, 0)>> ELSE <<>>)

Warn == Ev("warning", attempt + 1, NoResponse, 0)

Sleep(d) == Ev("sleep", attempt + 1, NoResponse, d)

\* lines 129-137 with a timeout that grows with the attempt
Request_GrowingTimeout ==
    [method |-> method, url |-> url, headers |-> request_headers,
     timeout |-> timeout * (attempt + 1)]

Request ==
    [method |-> method, url |-> url, headers |-> request_headers, timeout |-> timeout]

\* line 125 with one iteration more
InLoop_OneMore == pc = "loop" /\ attempt <= max_retries + 1

InLoop == pc = "loop" /\ attempt <= max_retries

\* lines 118-125: the URL and the merged headers, then the loop starts
MakeRequest(m, e, h) ==
    /\ pc = "idle"
    /\ pc' = "loop"
    /\ method' = m
    /\ endpoint' = e
    /\ headers' = h
    /\ url' = urljoin(base_url \o <<"/">>, lstrip(e, "/"))
    /\ request_headers' = MergeHeaders(session_headers, h)
    /\ attempt' = 0
    /\ sent' = <<>>
    /\ events' = <<>>
    /\ result' = NoResponse
    /\ raised' = NoError
    /\ UNCHANGED <<clientVars, last_token, restVars>>

\* lines 143-147 with the counter left alone: a 429 that costs no attempt
RateLimited_Uncounted(out) ==
    /\ InLoop
    /\ out.kind = "response" /\ IsRateLimited(out.status)
    /\ out.retry_after # NoHeader => IsIntLiteral(out.retry_after)
    /\ RetryAfterSeconds(out) >= 0
    /\ events' = Begin(out) \o <<Warn, Sleep(SecondsToUnits(RetryAfterSeconds(out)))>>
    /\ sent' = Append(sent, Request)
    /\ UNCHANGED <<attempt, pc, method, endpoint, headers, url,
                   request_headers, result, raised,
                   clientVars, last_token, restVars>>

\* lines 143-147: a 429 whose delay int() and time.sleep() accept; continue
RateLimited(out) ==
    /\ InLoop
    /\ out.kind = "response" /\ IsRateLimited(out.status)
    /\ out.retry_after # NoHeader => IsIntLiteral(out.retry_after)
    /\ RetryAfterSeconds(out) >= 0
    /\ events' = Begin(out) \o <<Warn, Sleep(SecondsToUnits(RetryAfterSeconds(out)))>>
    /\ sent' = Append(sent, Request)
    /\ attempt' = attempt + 1
    /\ UNCHANGED <<pc, method, endpoint, headers, url,
                   request_headers, result, raised,
                   clientVars, last_token, restVars>>

\* lines 144-146 inside a handler that catches every exception: the ValueError
\* is retried like a request failure
RateLimitedValueError_Caught(out) ==
    /\ InLoop
    /\ out.kind = "response" /\ IsRateLimited(out.status)
    /\ out.retry_after # NoHeader
    /\ ~IsIntLiteral(out.retry_after) \/ RetryAfterSeconds(out) < 0
    /\ sent' = Append(sent, Request)
    /\ IF CanRetryFailure(attempt)
       THEN /\ events' = Begin(out) \o <<Warn, Sleep(Backoff(attempt))>>
            /\ attempt' = attempt + 1
            /\ UNCHANGED <<pc, raised>>
       ELSE /\ events' = Begin(out) \o <<Ev("error", attempt + 1, NoResponse, 0)>>
            /\ raised' = [exc |-> "ValueError", cause |-> "invalid literal for int()"]
            /\ pc' = "raised"
            /\ UNCHANGED attempt
    /\ UNCHANGED <<method, endpoint, headers, url, request_headers, result,
                   clientVars, last_token, restVars>>

\* lines 144-146: int() rejects the header, or time.sleep() a negative delay;
\* the ValueError is no RequestException and leaves _make_request
RateLimitedValueError(out) ==
    /\ InLoop
    /\ out.kind = "response" /\ IsRateLimited(out.status)
    /\ out.retry_after # NoHeader
    /\ \/ /\ ~IsIntLiteral(out.retry_after)
          /\ events' = Begin(out)
          /\ raised' = [exc |-> "ValueError", cause |-> "invalid literal for int()"]
       \/ /\ IsIntLiteral(out.retry_after)
          /\ RetryAfterSeconds(out) < 0
          /\ events' = Begin(out) \o <<Warn>>
          /\ raised' = [exc |-> "ValueError", cause |-> "sleep length must be non-negative"]
    /\ sent' = Append(sent, Request)
    /\ pc' = "raised"
    /\ UNCHANGED <<attempt, method, endpoint, headers, url,
                   request_headers, result,
                   clientVars, last_token, restVars>>


\* lines 150-153: a server error with retries left; continue
ServerErrorRetry(out) ==
    /\ InLoop
    /\ out.kind = "response" /\ ~IsRateLimited(out.status)
    /\ IsRetryableServerError(out.status, attempt)
    /\ events' = Begin(out) \o <<Warn, Sleep(Backoff(attempt))>>
    /\ sent' = Append(sent, Request)
    /\ attempt' = attempt + 1
    /\ UNCHANGED <<pc, method, endpoint, headers, url,
                   request_headers, result, raised,
                   clientVars, last_token, restVars>>

\* line 155: return response
ReturnResponse(out) ==
    /\ InLoop
    /\ out.kind = "response" /\ ~IsRateLimited(out.status)
    /\ ~IsRetryableServerError(out.status, attempt)
    /\ events' = Begin(out)
    /\ sent' = Append(sent, Request)
    /\ result' = out
    /\ pc' = "returned"
    /\ UNCHANGED <<attempt, method, endpoint, headers, url,
                   request_headers, raised,
                   clientVars, last_token, restVars>>

\* lines 157-160: a RequestException with retries left
FailureRetry(out) ==
    /\ InLoop
    /\ out.kind = "exception"
    /\ CanRetryFailure(attempt)
    /\ events' = Begin(out) \o <<Warn, Sleep(Backoff(attempt))>>
    /\ sent' = Append(sent, Request)
    /\ attempt' = attempt + 1
    /\ UNCHANGED <<pc, method, endpoint, headers, url,
                   request_headers, result, raised,
                   clientVars, last_token, restVars>>

\* lines 161-163: a RequestException on the last iteration
FailureRaise(out) ==
    /\ InLoop
    /\ out.kind = "exception"
    /\ ~CanRetryFailure(attempt)
    /\ events' = Begin(out) \o <<Ev("error", attempt + 1, NoResponse, 0)>>
    /\ sent' = Append(sent, Request)
    /\ raised' = Reraise(out)
    /\ pc' = "raised"
    /\ UNCHANGED <<attempt, method, endpoint, headers, url,
                   request_headers, result,
                   clientVars, last_token, restVars>>

\* lines 165-166 never reached: the loop is over and nothing follows
LoopExhausted_Hangs ==
    /\ pc = "loop"
    /\ attempt > max_retries
    /\ UNCHANGED vars

\* lines 165-166: the loop ends without a return
LoopExhausted ==
    /\ pc = "loop"
    /\ attempt > max_retries
    /\ raised' = [exc |-> "RequestException", cause |-> "Max retries exceeded"]
    /\ pc' = "raised"
    /\ UNCHANGED <<attempt, method, endpoint, headers, url,
                   request_headers, sent, events, result,
                   clientVars, last_token, restVars>>

\* the caller takes the response or the exception; the client is idle again
Finish ==
    /\ pc \in {"returned", "raised"}
    /\ pc' = "idle"
    /\ attempt' = 0
    /\ method' = ""
    /\ endpoint' = EmptyStr
    /\ headers' = <<>>
    /\ url' = EmptyStr
    /\ request_headers' = EmptyHeaders
    /\ sent' = <<>>
    /\ events' = <<>>
    /\ result' = NoResponse
    /\ raised' = NoError
    /\ UNCHANGED <<clientVars, last_token, restVars>>

----------------------------------------------------------------------------
(* get_json and post_json: _make_request, raise_for_status(), json() *)

\* response bodies
Bodies == {"{\"ok\": true}", "[1, 2]", "", "<html>"}

\* json.loads: the bodies it accepts, with their values
JsonDocuments ==
    [b \in {"{\"ok\": true}", "[1, 2]"} |->
        IF b = "[1, 2]" THEN <<"list", "1", "2">> ELSE <<"dict", "ok", "true">>]

\* Response.raise_for_status() raises HTTPError for 4xx and 5xx
RaisesForStatus_ServerOnly(s) == s >= 500 /\ s < 600

RaisesForStatus(s) == s >= 400 /\ s < 600

\* lines 253 and 273: self.get(...) and self.post(...)
GetJson(e) == MakeRequest("GET", e, <<>>)

PostJson(e) == MakeRequest("POST", e, <<>>)

\* lines 253 and 273: an exception of _make_request leaves get_json / post_json
JsonPropagate ==
    /\ pc = "raised"
    /\ pc' = "json_raised"
    /\ json_error' = raised
    /\ UNCHANGED <<attempt, method, endpoint, headers, url,
                   request_headers, sent, events, result,
                   raised, json_value>>
    /\ UNCHANGED <<clientVars, last_token, last_base, snapVars, health, otherVars>>

\* lines 254 and 274: raise_for_status() raises
JsonRaiseForStatus ==
    /\ pc = "returned"
    /\ RaisesForStatus(result.status)
    /\ pc' = "json_raised"
    /\ events' = Append(events, Ev("raise_for_status", attempt + 1, result, 0))
    /\ json_error' = [exc |-> "HTTPError", cause |-> "status"]
    /\ UNCHANGED <<attempt, method, endpoint, headers, url,
                   request_headers, sent, result,
                   raised, json_value>>
    /\ UNCHANGED <<clientVars, last_token, last_base, snapVars, health, otherVars>>

\* lines 255 and 275: response.json() of the body
JsonDecode(body) ==
    /\ pc = "returned"
    /\ ~RaisesForStatus(result.status)
    /\ events' = events \o <<Ev("raise_for_status", attempt + 1, result, 0),
                            [kind |-> "json", n |-> attempt + 1, out |-> result, d |-> 0,
                             body |-> body]>>
    /\ IF body \in DOMAIN JsonDocuments
       THEN /\ pc' = "json_returned"
            /\ json_value' = JsonDocuments[body]
            /\ UNCHANGED json_error
       ELSE /\ pc' = "json_raised"
            /\ json_error' = [exc |-> "JSONDecodeError", cause |-> body]
            /\ UNCHANGED json_value
    /\ UNCHANGED <<attempt, method, endpoint, headers, url,
                   request_headers, sent, result, raised>>
    /\ UNCHANGED <<clientVars, last_token, last_base, snapVars, health, otherVars>>

\* the caller of get_json / post_json takes the value or the exception
JsonFinish ==
    /\ pc \in {"json_returned", "json_raised"}
    /\ pc' = "idle"
    /\ attempt' = 0
    /\ method' = ""
    /\ endpoint' = EmptyStr
    /\ headers' = <<>>
    /\ url' = EmptyStr
    /\ request_headers' = EmptyHeaders
    /\ sent' = <<>>
    /\ events' = <<>>
    /\ result' = NoResponse
    /\ raised' = NoError
    /\ json_value' = NoValue
    /\ json_error' = NoError
    /\ UNCHANGED <<clientVars, last_token, last_base, snapVars, health, otherVars>>

----------------------------------------------------------------------------
(* Config: a mapping loaded from a JSON file and from the environment *)

\* most (key, value) pairs stored by the calls made on one Config
MaxWrites == 3

Missing == "<missing>"

Paths == {"conf.json", "other.json"}

NoPath == "<None>"

NoKey == <<"<no key>">>

NoCfgError == "none"

\* characters
UpperToLower ==
    [c \in {"A", "B", "D", "E", "H", "M", "O", "P"} |->
        CASE c = "A" -> "a" [] c = "B" -> "b" [] c = "D" -> "d" [] c = "E" -> "e"
          [] c = "H" -> "h" [] c = "M" -> "m" [] c = "O" -> "o" [] c = "P" -> "p"]

\* str.lower()
lower(s) == [i \in 1..Len(s) |-> IF s[i] \in DOMAIN UpperToLower THEN UpperToLower[s[i]] ELSE s[i]]

\* str.startswith(prefix)
startswith(s, prefix) ==
    Len(s) >= Len(prefix) /\ SubSeq(s, 1, Len(prefix)) = prefix

\* s[k:]
SliceFrom(s, k) == SubSeq(s, k + 1, Len(s))

\* the prefix of the environment variables that are loaded
EnvPrefix == <<"A", "P", "P", "_">>

\* the texts a configuration file can hold
ConfigTexts ==
    {"{}",
     "{\"a\": \"f1\"}",
     "{\"a\": \"f2\", \"b\": \"f1\"}",
     "{\"b\": \"f1\", \"b\": \"f2\"}",
     "{\"a\": ",
     "",
     "[1]",
     "[[\"a\", \"f1\"], [\"b\"]]",
     "null"}

Pair(k, v) == [seq |-> TRUE, elems |-> <<k, v>>]

\* json.load of each text: an object as its members in order, an array as its
\* elements, null, or a JSONDecodeError
JsonLoad ==
    [t \in ConfigTexts |->
        CASE t = "{}" -> [kind |-> "object", items |-> <<>>]
          [] t = "{\"a\": \"f1\"}" ->
                [kind |-> "object", items |-> <<Pair(<<"a">>, "f1")>>]
          [] t = "{\"a\": \"f2\", \"b\": \"f1\"}" ->
                [kind |-> "object", items |-> <<Pair(<<"a">>, "f2"), Pair(<<"b">>, "f1")>>]
          [] t = "{\"b\": \"f1\", \"b\": \"f2\"}" ->
                [kind |-> "object", items |-> <<Pair(<<"b">>, "f1"), Pair(<<"b">>, "f2")>>]
          [] t = "[1]" ->
                [kind |-> "array", items |-> <<[seq |-> FALSE, elems |-> <<"1">>]>>]
          [] t = "[[\"a\", \"f1\"], [\"b\"]]" ->
                [kind |-> "array",
                 items |-> <<Pair(<<"a">>, "f1"), [seq |-> TRUE, elems |-> <<<<"b">>>>]>>]
          [] t = "null" -> [kind |-> "null", items |-> <<>>]
          [] OTHER -> [kind |-> "invalid", items |-> <<>>]]

EmptyConfig == [k \in {} |-> ""]

\* self._config[key] = value, with the first value kept
SetValue_FirstWins(c, k, v) ==
    [j \in DOMAIN c \cup {k} |-> IF j \in DOMAIN c THEN c[j] ELSE v]

\* self._config[key] = value
SetValue(c, k, v) ==
    [j \in DOMAIN c \cup {k} |-> IF j = k THEN v ELSE c[j]]

\* dict.update(iterable): the elements are stored in order; an element that is
\* not a sequence stops it with a TypeError and a sequence that is not a pair with
\* a ValueError, the elements before it staying stored
RECURSIVE UpdateFrom(_, _, _)
UpdateFrom(c, items, stored) ==
    IF items = <<>> THEN [config |-> c, error |-> NoCfgError, stored |-> stored]
    ELSE IF ~items[1].seq THEN [config |-> c, error |-> "TypeError", stored |-> stored]
    ELSE IF Len(items[1].elems) # 2
         THEN [config |-> c, error |-> "ValueError", stored |-> stored]
    ELSE UpdateFrom(SetValue(c, items[1].elems[1], items[1].elems[2]), Tail(items),
                    Append(stored, <<items[1].elems[1], items[1].elems[2]>>))

\* lines 43-47 with the data parsed before the file is known to be whole
LoadedFile_Eager(c, content) ==
    IF content = Missing
    THEN [config |-> c, error |-> "ValueError", stored |-> <<>>]
    ELSE IF JsonLoad[content].kind = "invalid"
    THEN [config |-> SetValue(c, <<"a">>, "f1"), error |-> "ValueError",
          stored |-> <<<<<<"a">>, "f1">>>>]
    ELSE IF JsonLoad[content].kind = "null"
    THEN [config |-> c, error |-> "TypeError", stored |-> <<>>]
    ELSE UpdateFrom(c, JsonLoad[content].items, <<>>)

\* lines 43-47: open, json.load, dict.update; FileNotFoundError and
\* JSONDecodeError become ValueError
LoadedFile(c, content) ==
    IF content = Missing
    THEN [config |-> c, error |-> "ValueError", stored |-> <<>>]
    ELSE IF JsonLoad[content].kind = "invalid"
    THEN [config |-> c, error |-> "ValueError", stored |-> <<>>]
    ELSE IF JsonLoad[content].kind = "null"
    THEN [config |-> c, error |-> "TypeError", stored |-> <<>>]
    ELSE UpdateFrom(c, JsonLoad[content].items, <<>>)

\* lines 55-58: the items of os.environ in order
RECURSIVE LoadedEnv(_, _, _)
LoadedEnv(c, env, stored) ==
    IF env = <<>> THEN [config |-> c, error |-> NoCfgError, stored |-> stored]
    ELSE IF startswith(env[1][1], EnvPrefix)
    THEN LoadedEnv(SetValue(c, lower(SliceFrom(env[1][1], 4)), env[1][2]), Tail(env),
                   Append(stored, <<lower(SliceFrom(env[1][1], 4)), env[1][2]>>))
    ELSE LoadedEnv(c, Tail(env), stored)

\* line 30: os.path.exists(config_file)
exists(fs, p) == p \in DOMAIN fs /\ fs[p] # Missing

\* lines 30-31: if config_file and os.path.exists(config_file)
ConstructorLoadsFile(fs, cf) == cf # NoPath /\ cf # "" /\ exists(fs, cf)

Call(op, k, v, p) == [op |-> op, key |-> k, value |-> v, path |-> p]

\* lines 26-34 with the environment loaded before the file
ConfigConstruct_EnvFirst(cf) ==
    LET fromEnv == LoadedEnv(EmptyConfig, environ, <<>>)
        fromFile == IF ConstructorLoadsFile(files, cf)
                    THEN LoadedFile(fromEnv.config, IF cf \in DOMAIN files THEN files[cf] ELSE Missing)
                    ELSE [config |-> fromEnv.config, error |-> NoCfgError, stored |-> <<>>]
    IN  /\ config_file = cf
        /\ cfg_before = EmptyConfig
        /\ cfg_last = Call("__init__", NoKey, "", cf)
        /\ cfg_made = (fromFile.error = NoCfgError)
        /\ config = fromFile.config
        /\ cfg_error = fromFile.error
        /\ writes = fromEnv.stored \o fromFile.stored

\* Config(config_file), lines 26-34
ConfigConstruct(cf) ==
    LET fromFile == IF ConstructorLoadsFile(files, cf)
                    THEN LoadedFile(EmptyConfig, IF cf \in DOMAIN files THEN files[cf] ELSE Missing)
                    ELSE [config |-> EmptyConfig, error |-> NoCfgError, stored |-> <<>>]
        fromEnv == LoadedEnv(fromFile.config, environ, fromFile.stored)
    IN  /\ config_file = cf
        /\ cfg_before = EmptyConfig
        /\ cfg_last = Call("__init__", NoKey, "", cf)
        /\ IF fromFile.error # NoCfgError
           THEN /\ cfg_made = FALSE
                /\ config = fromFile.config
                /\ cfg_error = fromFile.error
                /\ writes = fromFile.stored
           ELSE /\ cfg_made = TRUE
                /\ config = fromEnv.config
                /\ cfg_error = NoCfgError
                /\ writes = fromEnv.stored

\* no Config is in use
NoConfig ==
    /\ cfg_made = FALSE
    /\ config = EmptyConfig
    /\ config_file = NoPath
    /\ files = [p \in Paths |-> Missing]
    /\ environ = <<>>
    /\ cfg_error = NoCfgError
    /\ cfg_before = EmptyConfig
    /\ cfg_last = Call("none", NoKey, "", NoPath)
    /\ writes = <<>>

ConfigFrame ==
    UNCHANGED <<clientVars, dispatchVars, last_token, last_base, snapVars, health, jsonVars,
                diskVars, validateVars, stringVars>>

\* load_from_file(config_file), lines 36-47
LoadFromFile(p) ==
    LET loaded == LoadedFile(config, files[p])
    IN  /\ cfg_made
        /\ Len(writes) + Len(loaded.stored) <= MaxWrites
        /\ config' = loaded.config
        /\ cfg_error' = loaded.error
        /\ cfg_before' = config
        /\ cfg_last' = Call("load_from_file", NoKey, "", p)
        /\ writes' = writes \o loaded.stored
        /\ UNCHANGED <<cfg_made, config_file, files, environ>>
        /\ ConfigFrame

\* load_from_env(), lines 49-58
LoadFromEnv ==
    LET loaded == LoadedEnv(config, environ, <<>>)
    IN  /\ cfg_made
        /\ Len(writes) + Len(loaded.stored) <= MaxWrites
        /\ config' = loaded.config
        /\ cfg_error' = NoCfgError
        /\ cfg_before' = config
        /\ cfg_last' = Call("load_from_env", NoKey, "", NoPath)
        /\ writes' = writes \o loaded.stored
        /\ UNCHANGED <<cfg_made, config_file, files, environ>>
        /\ ConfigFrame

\* set(key, value), lines 73-81
Set(k, v) ==
    /\ cfg_made
    /\ Len(writes) < MaxWrites
    /\ config' = SetValue(config, k, v)
    /\ cfg_error' = NoCfgError
    /\ cfg_before' = config
    /\ cfg_last' = Call("set", k, v, NoPath)
    /\ writes' = Append(writes, <<k, v>>)
    /\ UNCHANGED <<cfg_made, config_file, files, environ>>
    /\ ConfigFrame

\* config[key] = value, lines 110-112
SetItem(k, v) ==
    /\ cfg_made
    /\ Len(writes) < MaxWrites
    /\ config' = SetValue(config, k, v)
    /\ cfg_error' = NoCfgError
    /\ cfg_before' = config
    /\ cfg_last' = Call("__setitem__", k, v, NoPath)
    /\ writes' = Append(writes, <<k, v>>)
    /\ UNCHANGED <<cfg_made, config_file, files, environ>>
    /\ ConfigFrame

\* get(key, default), line 71
Get(k, d) == IF k \in DOMAIN config THEN config[k] ELSE d

\* key in config, line 116
Contains(k) == k \in DOMAIN config

\* config[key], line 108: the value, or KeyError
GetItem(k) ==
    IF k \in DOMAIN config THEN [value |-> config[k], error |-> NoCfgError]
    ELSE [value |-> "", error |-> "KeyError"]

\* to_dict(), line 104
ToDict == [k \in DOMAIN config |-> config[k]]

----------------------------------------------------------------------------
(* DataProcessor: JSON and text files *)

\* the paths files are written to and read from
DataPaths == {"out/a.json", "b.txt"}

NoFile == <<"<no file>">>

\* JSON values: strings, null, and lists and dicts of them
Null == [t |-> "null", s |-> <<>>, items |-> <<>>]

Str(s) == [t |-> "str", s |-> s, items |-> <<>>]

List(items) == [t |-> "list", s |-> <<>>, items |-> items]

Dict(members) == [t |-> "dict", s |-> <<>>, items |-> members]

\* encoding='utf-8': str.encode, character by character
RECURSIVE Encode(_)
Encode(s) ==
    IF s = <<>> THEN <<>>
    ELSE (IF s[1] = "é" THEN <<"C3", "A9">> ELSE <<s[1]>>) \o Encode(Tail(s))

\* encoding='utf-8': bytes.decode
RECURSIVE Decode(_)
Decode(b) ==
    IF b = <<>> THEN [ok |-> TRUE, s |-> <<>>]
    ELSE IF b[1] = "C3"
         THEN IF Len(b) >= 2 /\ b[2] = "A9"
              THEN LET rest == Decode(SubSeq(b, 3, Len(b)))
                   IN  [ok |-> rest.ok, s |-> <<"é">> \o rest.s]
              ELSE [ok |-> FALSE, s |-> <<>>]
    ELSE IF b[1] = "A9" THEN [ok |-> FALSE, s |-> <<>>]
    ELSE LET rest == Decode(Tail(b))
         IN  [ok |-> rest.ok, s |-> <<b[1]>> \o rest.s]

\* open(..., 'r') with the default newline=None: "\r\n" and "\r" are read as "\n"
RECURSIVE UniversalNewlines(_)
UniversalNewlines(s) ==
    IF s = <<>> THEN <<>>
    ELSE IF s[1] = "CR"
         THEN IF Len(s) >= 2 /\ s[2] = "LF"
              THEN <<"LF">> \o UniversalNewlines(SubSeq(s, 3, Len(s)))
              ELSE <<"LF">> \o UniversalNewlines(Tail(s))
    ELSE <<s[1]>> \o UniversalNewlines(Tail(s))

\* open(..., 'w') with the default newline=None: "\n" is written as os.linesep,
\* which is "\n" on POSIX
WrittenNewlines(s) == s

\* json.dump, the escapes of a string (ensure_ascii=False)
RECURSIVE Escape(_)
Escape(s) ==
    IF s = <<>> THEN <<>>
    ELSE (CASE s[1] = "CR" -> <<"\\", "r">>
            [] s[1] = "LF" -> <<"\\", "n">>
            [] s[1] = "\"" -> <<"\\", "\"">>
            [] s[1] = "\\" -> <<"\\", "\\">>
            [] OTHER -> <<s[1]>>) \o Escape(Tail(s))

Quote(s) == <<"\"">> \o Escape(s) \o <<"\"">>

DumpScalar(v) == IF v.t = "str" THEN Quote(v.s) ELSE <<"n", "u", "l", "l">>

\* json.dump with indent=2: the lines of a list or of a dict
RECURSIVE DumpElements(_)
DumpElements(items) ==
    IF items = <<>> THEN <<>>
    ELSE <<"LF", " ", " ">> \o DumpScalar(items[1])
            \o (IF Len(items) > 1 THEN <<",">> ELSE <<>>) \o DumpElements(Tail(items))

RECURSIVE DumpMembers(_)
DumpMembers(members) ==
    IF members = <<>> THEN <<>>
    ELSE <<"LF", " ", " ">> \o Quote(members[1][1]) \o <<":", " ">> \o DumpScalar(members[1][2])
            \o (IF Len(members) > 1 THEN <<",">> ELSE <<>>) \o DumpMembers(Tail(members))

\* json.dump(data, f, indent=2, ensure_ascii=False), line 91
Dump(v) ==
    CASE v.t = "list" ->
            IF v.items = <<>> THEN <<"[", "]">>
            ELSE <<"[">> \o DumpElements(v.items) \o <<"LF", "]">>
      [] v.t = "dict" ->
            IF v.items = <<>> THEN <<"{", "}">>
            ELSE <<"{">> \o DumpMembers(v.items) \o <<"LF", "}">>
      [] OTHER -> DumpScalar(v)

\* json.load, line 67: white space, strings with escapes, null, lists, dicts
JsonWs == {" ", "LF", "CR"}

RECURSIVE SkipWs(_, _)
SkipWs(t, i) == IF i <= Len(t) /\ t[i] \in JsonWs THEN SkipWs(t, i + 1) ELSE i

ParseFail == [ok |-> FALSE, value |-> Null, next |-> 0]

ParseOk(v, n) == [ok |-> TRUE, value |-> v, next |-> n]

Unescape ==
    [c \in {"r", "n", "\"", "\\"} |->
        CASE c = "r" -> "CR" [] c = "n" -> "LF" [] c = "\"" -> "\"" [] c = "\\" -> "\\"]

\* the characters of a string after its opening quote
RECURSIVE ParseChars(_, _, _)
ParseChars(t, i, acc) ==
    IF i > Len(t) THEN ParseFail
    ELSE IF t[i] = "\"" THEN ParseOk(Str(acc), i + 1)
    ELSE IF t[i] = "\\"
         THEN IF i + 1 <= Len(t) /\ t[i + 1] \in DOMAIN Unescape
              THEN ParseChars(t, i + 2, Append(acc, Unescape[t[i + 1]]))
              ELSE ParseFail
    ELSE IF t[i] \in {"CR", "LF"} THEN ParseFail
    ELSE ParseChars(t, i + 1, Append(acc, t[i]))

ParseScalar(t, i) ==
    IF i > Len(t) THEN ParseFail
    ELSE IF t[i] = "\"" THEN ParseChars(t, i + 1, <<>>)
    ELSE IF i + 3 <= Len(t) /\ SubSeq(t, i, i + 3) = <<"n", "u", "l", "l">>
         THEN ParseOk(Null, i + 4)
    ELSE ParseFail

RECURSIVE ParseElements(_, _, _)
ParseElements(t, i, acc) ==
    LET e == ParseScalar(t, SkipWs(t, i))
        j == SkipWs(t, e.next)
    IN  IF ~e.ok THEN ParseFail
        ELSE IF j > Len(t) THEN ParseFail
        ELSE IF t[j] = "," THEN ParseElements(t, j + 1, Append(acc, e.value))
        ELSE IF t[j] = "]" THEN ParseOk(List(Append(acc, e.value)), j + 1)
        ELSE ParseFail

\* d[k] = v while the dict is built: a repeated key keeps its place
PutMember(members, k, v) ==
    IF \E n \in 1..Len(members) : members[n][1] = k
    THEN [n \in 1..Len(members) |-> IF members[n][1] = k THEN <<k, v>> ELSE members[n]]
    ELSE Append(members, <<k, v>>)

RECURSIVE ParseMembers(_, _, _)
ParseMembers(t, i, acc) ==
    LET ki == SkipWs(t, i)
        k == IF ki <= Len(t) /\ t[ki] = "\"" THEN ParseChars(t, ki + 1, <<>>) ELSE ParseFail
        c == SkipWs(t, k.next)
        v == ParseScalar(t, SkipWs(t, c + 1))
        j == SkipWs(t, v.next)
    IN  IF ~k.ok THEN ParseFail
        ELSE IF c > Len(t) THEN ParseFail
        ELSE IF t[c] # ":" THEN ParseFail
        ELSE IF ~v.ok THEN ParseFail
        ELSE IF j > Len(t) THEN ParseFail
        ELSE IF t[j] = "," THEN ParseMembers(t, j + 1, PutMember(acc, k.value.s, v.value))
        ELSE IF t[j] = "}" THEN ParseOk(Dict(PutMember(acc, k.value.s, v.value)), j + 1)
        ELSE ParseFail

ParseValue(t, i) ==
    IF i > Len(t) THEN ParseFail
    ELSE IF t[i] = "["
         THEN IF SkipWs(t, i + 1) <= Len(t) /\ t[SkipWs(t, i + 1)] = "]"
              THEN ParseOk(List(<<>>), SkipWs(t, i + 1) + 1)
              ELSE ParseElements(t, i + 1, <<>>)
    ELSE IF t[i] = "{"
         THEN IF SkipWs(t, i + 1) <= Len(t) /\ t[SkipWs(t, i + 1)] = "}"
              THEN ParseOk(Dict(<<>>), SkipWs(t, i + 1) + 1)
              ELSE ParseMembers(t, i + 1, <<>>)
    ELSE ParseScalar(t, i)

\* json.load of a whole text: one value and nothing after it
Load(t) ==
    LET v == ParseValue(t, SkipWs(t, 1))
    IN  IF v.ok /\ SkipWs(t, v.next) > Len(t) THEN v ELSE ParseFail

\* validate_data: a value is known by its type and, for a dict, by the types of
\* the values under its keys; a schema gives a type for each key
Value(type, members) == [type |-> type, members |-> members]

NoMembers == [k \in {} |-> ""]

\* the classes of which a value of each type is an instance
Mro ==
    [t \in {"str", "int", "bool", "float", "list", "dict"} |->
        IF t = "bool" THEN {"bool", "int", "object"} ELSE {t, "object"}]

\* isinstance(value, expected_type)
isinstance(t, expected_type) == expected_type \in Mro[t]

\* bool(schema), line 229: None and the empty dict are false
SchemaGiven(schema) == schema.type # "NoneType" /\ schema.members # NoMembers

\* validate_data(data, schema), lines 225-241
validate_data(data, schema) ==
    IF data.type = "NoneType" THEN FALSE
    ELSE IF SchemaGiven(schema) /\ schema.type = "dict" /\ data.type = "dict"
         THEN \A key \in DOMAIN schema.members :
                 /\ key \in DOMAIN data.members
                 /\ isinstance(data.members[key], schema.members[key])
    ELSE TRUE

NoValidation == [made |-> FALSE, data |-> Value("NoneType", NoMembers),
                 schema |-> Value("NoneType", NoMembers)]

NoCall == [op |-> "none", path |-> "", arg |-> Null]

NoResult == [value |-> Null, error |-> "none"]

NotWritten == [kind |-> "none", value |-> Null]

\* no DataProcessor is in use
NoData ==
    /\ disk = [p \in DataPaths |-> NoFile]
    /\ dp_last = NoCall
    /\ dp_result = NoResult
    /\ dp_written = [p \in DataPaths |-> NotWritten]
    /\ vd_call = NoValidation
    /\ vd_result = FALSE

DataFrame ==
    UNCHANGED <<clientVars, dispatchVars, last_token, last_base, snapVars, health, jsonVars,
                configVars, stringVars>>

\* write_json(data, file_path), lines 77-95
WriteJson(d, p) ==
    /\ disk' = [disk EXCEPT ![p] = Encode(WrittenNewlines(Dump(d)))]
    /\ dp_last' = [op |-> "write_json", path |-> p, arg |-> d]
    /\ dp_result' = NoResult
    /\ dp_written' = [dp_written EXCEPT ![p] = [kind |-> "json", value |-> d]]
    /\ UNCHANGED validateVars
    /\ DataFrame

\* read_json(file_path), lines 51-75
ReadJson(p) ==
    /\ dp_last' = [op |-> "read_json", path |-> p, arg |-> Null]
    /\ dp_result' =
          IF disk[p] = NoFile THEN [value |-> Null, error |-> "FileNotFoundError"]
          ELSE IF ~Decode(disk[p]).ok THEN [value |-> Null, error |-> "UnicodeDecodeError"]
          ELSE LET v == Load(UniversalNewlines(Decode(disk[p]).s))
               IN  IF v.ok THEN [value |-> v.value, error |-> "none"]
                   ELSE [value |-> Null, error |-> "JSONDecodeError"]
    /\ UNCHANGED <<disk, dp_written, validateVars>>
    /\ DataFrame

\* write_text(content, file_path), lines 172-189
WriteText(s, p) ==
    /\ disk' = [disk EXCEPT ![p] = Encode(WrittenNewlines(s))]
    /\ dp_last' = [op |-> "write_text", path |-> p, arg |-> Str(s)]
    /\ dp_result' = NoResult
    /\ dp_written' = [dp_written EXCEPT ![p] = [kind |-> "text", value |-> Str(s)]]
    /\ UNCHANGED validateVars
    /\ DataFrame

\* read_text(file_path), lines 150-170
ReadText(p) ==
    /\ dp_last' = [op |-> "read_text", path |-> p, arg |-> Null]
    /\ dp_result' =
          IF disk[p] = NoFile THEN [value |-> Null, error |-> "FileNotFoundError"]
          ELSE IF ~Decode(disk[p]).ok THEN [value |-> Null, error |-> "UnicodeDecodeError"]
          ELSE [value |-> Str(UniversalNewlines(Decode(disk[p]).s)), error |-> "none"]
    /\ UNCHANGED <<disk, dp_written, validateVars>>
    /\ DataFrame

\* validate_data(data, schema), lines 214-241
ValidateData(data, schema) ==
    /\ vd_call' = [made |-> TRUE, data |-> data, schema |-> schema]
    /\ vd_result' = validate_data(data, schema)
    /\ UNCHANGED <<disk, dp_last, dp_result, dp_written>>
    /\ DataFrame

----------------------------------------------------------------------------
(* StringUtils *)

\* longest text given to truncate
MaxLen == 3

NoText == <<"<no text>">>

NoTruncate == [text |-> NoText, max_length |-> 0, suffix |-> NoText]

\* no StringUtils call is made
NoStrings ==
    /\ tr_call = NoTruncate
    /\ tr_result = NoText

\* text[:n]: n characters, or all but the last -n for a negative n
SliceTo(s, n) ==
    IF n >= 0 THEN SubSeq(s, 1, IF n < Len(s) THEN n ELSE Len(s))
    ELSE SubSeq(s, 1, IF Len(s) + n > 0 THEN Len(s) + n ELSE 0)

\* StringUtils.truncate(text, max_length, suffix), lines 126-129
truncate(text, max_length, suffix) ==
    IF text = <<>> \/ Len(text) <= max_length THEN text
    ELSE SliceTo(text, max_length - Len(suffix)) \o suffix

\* the call returns
Truncate ==
    /\ tr_call # NoTruncate
    /\ tr_result = NoText
    /\ tr_result' = truncate(tr_call.text, tr_call.max_length, tr_call.suffix)
    /\ UNCHANGED <<tr_call, clientVars, dispatchVars, last_token, last_base, snapVars, health,
                   jsonVars, configVars, diskVars, validateVars>>

----------------------------------------------------------------------------
(* Specification of the retry loop: a client of any retry configuration     *)
(* dispatches requests against a transport that answers anything.          *)

Init ==
    \E n \in 0..MaxRetries, d \in RetryDelays :
        /\ Construct(<<"http:", "/", "/", "h", "/">>, None, DefaultTimeout, n, d)
        /\ NoConfig
        /\ NoData
        /\ NoStrings

Next ==
    \/ MakeRequest("GET", <<"/", "x">>, <<>>)
    \/ \E out \in Outcomes : RateLimited(out)
    \/ \E out \in Outcomes : RateLimitedValueError(out)
    \/ \E out \in Outcomes : ServerErrorRetry(out)
    \/ \E out \in Outcomes : ReturnResponse(out)
    \/ \E out \in Outcomes : FailureRetry(out)
    \/ \E out \in Outcomes : FailureRaise(out)
    \/ LoopExhausted
    \/ Finish

Spec == Init /\ [][Next]_vars

(* The retry loop when every request and every sleep completes: an          *)
(* iteration that can run does run.                                          *)

Iterate ==
    \/ \E out \in Outcomes : RateLimited(out)
    \/ \E out \in Outcomes : RateLimitedValueError(out)
    \/ \E out \in Outcomes : ServerErrorRetry(out)
    \/ \E out \in Outcomes : ReturnResponse(out)
    \/ \E out \in Outcomes : FailureRetry(out)
    \/ \E out \in Outcomes : FailureRaise(out)
    \/ LoopExhausted

SpecLive == Init /\ [][Next]_vars /\ WF_vars(Iterate)

(* Specification of the client state: constructor arguments, setters and    *)
(* per-request headers vary; the transport answers, rate-limits or fails.   *)

ClientOutcomes ==
    {Response(200, NoHeader), Response(429, NoHeader), Failure("Timeout")}

InitClient ==
    \E b \in BaseUrlArgs, key \in {None} \cup Tokens, n \in 0..MaxRetries :
        /\ Construct(b, key, DefaultTimeout, n, Scale)
        /\ NoConfig
        /\ NoData
        /\ NoStrings

NextClient ==
    \/ \E t \in Tokens : set_api_key(t)
    \/ \E b \in BaseUrlArgs : set_base_url(b)
    \/ \E m \in Methods, e \in Endpoints, h \in HeaderArgs : MakeRequest(m, e, h)
    \/ \E out \in ClientOutcomes : RateLimited(out)
    \/ \E out \in ClientOutcomes : ReturnResponse(out)
    \/ \E out \in ClientOutcomes : FailureRetry(out)
    \/ \E out \in ClientOutcomes : FailureRaise(out)
    \/ LoopExhausted
    \/ Finish

SpecClient == InitClient /\ [][NextClient]_vars

(* Specification of get_json and post_json: the retry loop, then the status *)
(* check and the decoding of the body.                                      *)

NextJson ==
    \/ \E e \in Endpoints : GetJson(e)
    \/ \E e \in Endpoints : PostJson(e)
    \/ \E out \in Outcomes : RateLimited(out)
    \/ \E out \in Outcomes : RateLimitedValueError(out)
    \/ \E out \in Outcomes : ServerErrorRetry(out)
    \/ \E out \in Outcomes : ReturnResponse(out)
    \/ \E out \in Outcomes : FailureRetry(out)
    \/ \E out \in Outcomes : FailureRaise(out)
    \/ LoopExhausted
    \/ JsonPropagate
    \/ JsonRaiseForStatus
    \/ \E body \in Bodies : JsonDecode(body)
    \/ JsonFinish

SpecJson == Init /\ [][NextJson]_vars

(* Specification of the client's queries: setters, get_status and           *)
(* initialize, with a health endpoint that answers anything or fails.       *)

HealthOutcomes ==
    {Response(200, NoHeader), Response(404, NoHeader), Response(503, NoHeader),
     Failure("ConnectionError")}

InitStatus ==
    \E b \in BaseUrlArgs, key \in {None} \cup Tokens, n \in 0..MaxRetries :
        /\ Construct(b, key, DefaultTimeout, n, Scale)
        /\ NoConfig
        /\ NoData
        /\ NoStrings

NextStatus ==
    \/ \E t \in Tokens : set_api_key(t)
    \/ \E b \in BaseUrlArgs : set_base_url(b)
    \/ GetStatus
    \/ \E out \in HealthOutcomes : Initialize(out)

SpecStatus == InitStatus /\ [][NextStatus]_vars

(* Specification of Config: any file system and environment, then loads and *)
(* writes.                                                                   *)

\* no APIClient is in use
NoClient == Construct(EmptyStr, None, DefaultTimeout, 0, Scale)

Keys == {<<"a">>, <<"b">>}

Values == {"v1", "v2"}

EnvName(s) ==
    CASE s = "APP_A" -> <<"A", "P", "P", "_", "A">>
      [] s = "APP_a" -> <<"A", "P", "P", "_", "a">>
      [] s = "APP_Db" -> <<"A", "P", "P", "_", "D", "b">>
      [] s = "APP_" -> <<"A", "P", "P", "_">>
      [] s = "APP" -> <<"A", "P", "P">>
      [] s = "app_b" -> <<"a", "p", "p", "_", "b">>
      [] s = "HOME" -> <<"H", "O", "M", "E">>

Environments ==
    {<<>>,
     <<<<EnvName("HOME"), "e1">>, <<EnvName("APP_A"), "e1">>>>,
     <<<<EnvName("APP_A"), "e1">>, <<EnvName("APP_a"), "e2">>>>,
     <<<<EnvName("app_b"), "e1">>, <<EnvName("APP_Db"), "e2">>, <<EnvName("APP"), "e1">>>>,
     <<<<EnvName("APP_"), "e1">>>>}

FileSystems ==
    {fs \in [Paths -> ConfigTexts \cup {Missing}] : fs["other.json"] \in {Missing, "{\"a\": \"f1\"}"}}

InitConfig ==
    \E fs \in FileSystems, env \in Environments, cf \in Paths \cup {NoPath, ""} :
        /\ files = fs
        /\ environ = env
        /\ ConfigConstruct(cf)
        /\ NoClient
        /\ NoData
        /\ NoStrings

NextConfig ==
    \/ \E p \in Paths : LoadFromFile(p)
    \/ LoadFromEnv
    \/ \E k \in Keys, v \in Values : Set(k, v)
    \/ \E k \in Keys, v \in Values : SetItem(k, v)

SpecConfig == InitConfig /\ [][NextConfig]_vars

(* Specification of the URL of a dispatch: base URLs with and without a     *)
(* path, endpoints with leading slashes, dot segments and a scheme.          *)

UrlBases == {EmptyStr, <<"http:", "/", "/", "h">>, <<"http:", "/", "/", "h", "/", "api", "/">>}

UrlEndpoints ==
    {EmptyStr,
     <<"x">>,
     <<"/", "x">>,
     <<"/", "/", "x">>,
     <<"x", "/">>,
     <<"a", "/", "/", "b">>,
     <<".", "/", "x">>,
     <<"..", "/", "x">>,
     <<"/", "..", "/", "..", "/", "x">>,
     <<"a", "/", "..">>,
     <<"http:", "/", "/", "evil", "/", "x">>,
     <<"/", "http:", "/", "/", "evil", "/", "x">>}

UrlOutcomes == {Response(200, NoHeader), Failure("Timeout")}

InitUrl ==
    \E b \in UrlBases, n \in 0..1 :
        /\ Construct(b, None, DefaultTimeout, n, Scale)
        /\ NoConfig
        /\ NoData
        /\ NoStrings

NextUrl ==
    \/ \E m \in Methods, e \in UrlEndpoints : MakeRequest(m, e, <<>>)
    \/ \E out \in UrlOutcomes : ReturnResponse(out)
    \/ \E out \in UrlOutcomes : FailureRetry(out)
    \/ \E out \in UrlOutcomes : FailureRaise(out)
    \/ Finish

SpecUrl == InitUrl /\ [][NextUrl]_vars

(* Specification of DataProcessor: writes and reads of JSON and text files. *)

TextArgs ==
    {<<>>,
     <<"a">>,
     <<"a", "LF", "é">>,
     <<"a", "CR", "LF", "a">>,
     <<"a", "CR">>,
     <<"n", "u", "l", "l">>,
     <<"\"", "a", "\\", "\"">>}

JsonArgs ==
    {Null,
     Str(<<>>),
     Str(<<"a", "CR", "LF", "\"", "\\", "é">>),
     List(<<>>),
     List(<<Str(<<"a", "LF">>), Null>>),
     Dict(<<>>),
     Dict(<<<<<<"k">>, Str(<<"CR">>)>>, <<<<"é">>, Null>>>>)}

InitData ==
    /\ NoData
    /\ NoStrings
    /\ NoClient
    /\ NoConfig

\* data given to validate_data: None, dicts, and values that are no dict
DataArgs ==
    {Value("NoneType", NoMembers),
     Value("dict", NoMembers),
     Value("dict", "name" :> "str"),
     Value("dict", ("name" :> "str") @@ ("age" :> "int")),
     Value("dict", ("name" :> "int") @@ ("age" :> "int")),
     Value("dict", ("name" :> "str") @@ ("age" :> "bool")),
     Value("dict", "age" :> "int"),
     Value("dict", "name" :> "float"),
     Value("list", NoMembers),
     Value("str", NoMembers),
     Value("int", NoMembers),
     Value("bool", NoMembers),
     Value("float", NoMembers)}

\* schemas: None, {}, and dicts from key to type
SchemaArgs ==
    {Value("NoneType", NoMembers),
     Value("dict", NoMembers),
     Value("dict", "name" :> "str"),
     Value("dict", "name" :> "int"),
     Value("dict", "name" :> "object"),
     Value("dict", "age" :> "int"),
     Value("dict", "age" :> "float"),
     Value("dict", ("name" :> "str") @@ ("age" :> "int")),
     Value("dict", ("name" :> "str") @@ ("age" :> "bool"))}

NextData ==
    \/ \E d \in JsonArgs, p \in DataPaths : WriteJson(d, p)
    \/ \E p \in DataPaths : ReadJson(p)
    \/ \E t \in TextArgs, p \in DataPaths : WriteText(t, p)
    \/ \E p \in DataPaths : ReadText(p)

SpecData == InitData /\ [][NextData]_vars

(* Specification of validate_data: every pairing of the data and schemas.   *)

NextValidate == \E data \in DataArgs, schema \in SchemaArgs : ValidateData(data, schema)

SpecValidate == InitData /\ [][NextValidate]_vars

(* Specification of StringUtils.truncate: every text up to MaxLen characters, *)
(* every max_length up to one more, and suffixes of zero, one and three       *)
(* characters.                                                               *)

Texts == UNION {[1..n -> {"a", "b"}] : n \in 0..MaxLen}

Suffixes == {<<>>, <<".">>, <<".", ".", ".">>}

InitStrings ==
    /\ \E text \in Texts, max_length \in 0..(MaxLen + 1), suffix \in Suffixes :
          tr_call = [text |-> text, max_length |-> max_length, suffix |-> suffix]
    /\ tr_result = NoText
    /\ NoClient
    /\ NoConfig
    /\ NoData

NextStrings == Truncate

SpecStrings == InitStrings /\ [][NextStrings]_vars

----------------------------------------------------------------------------
(* Reading the record of a dispatch *)

\* the outcomes of the attempts made so far, in order
Requests == SelectSeq(events, LAMBDA e : e.kind = "request")

Attempts == Len(Requests)

Sleeps == SelectSeq(events, LAMBDA e : e.kind = "sleep")

\* the position in events of the k-th attempt; past the end for k = Attempts + 1
PosOfRequest(k) ==
    IF k > Attempts THEN Len(events) + 1
    ELSE CHOOSE i \in 1..Len(events) :
            /\ events[i].kind = "request"
            /\ Cardinality({j \in 1..i : events[j].kind = "request"}) = k

\* the sleeps between the k-th attempt and the next one (or the end)
SleepsAfter(k) ==
    SelectSeq(SubSeq(events, PosOfRequest(k) + 1, PosOfRequest(k + 1) - 1),
              LAMBDA e : e.kind = "sleep")

IsFinalStatus(o) == o.kind = "response" /\ o.status # 429 /\ o.status < 500

IsServerError(o) == o.kind = "response" /\ o.status >= 500

IsNetworkFailure(o) == o.kind = "exception"

IsRetryableFailure(o) == IsServerError(o) \/ IsNetworkFailure(o)

\* a 429 whose Retry-After is absent or a non-negative integer
IsRateLimit(o) ==
    /\ o.kind = "response" /\ o.status = 429
    /\ o.retry_after # NoHeader =>
          o.retry_after \in DOMAIN IntLiterals /\ IntLiterals[o.retry_after] >= 0

Dispatching == pc # "idle"

----------------------------------------------------------------------------
(* C1 *)

\* C1: an attempt that receives a status that is neither 429 nor >= 500 ends the
\* dispatch: that response is returned, and no attempt and no sleep follow it;
\* a 2xx on the first attempt means one attempt and no sleep.
C1_FinalStatusReturnsAtOnce ==
    /\ \A i \in 1..Len(events) :
          (events[i].kind = "request" /\ IsFinalStatus(events[i].out)) =>
              /\ pc = "returned"
              /\ result = events[i].out
              /\ \A j \in (i + 1)..Len(events) : events[j].kind \notin {"request", "sleep"}
    /\ (Attempts >= 1 /\ Requests[1].out.kind = "response"
            /\ Requests[1].out.status \in 200..299) =>
          Attempts = 1 /\ Len(Sleeps) = 0

C1_Witness ==
    /\ pc = "returned"
    /\ result.status = 404
    /\ Attempts = 3
    /\ Len(Sleeps) = 2

----------------------------------------------------------------------------
(* C2 *)

AllServerErrors ==
    Attempts >= 1 /\ \A k \in 1..Attempts : IsServerError(Requests[k].out)

\* C2: when every attempt receives a status >= 500, the dispatch makes exactly
\* max_retries + 1 attempts and returns the last response without raising; it
\* sleeps once after every attempt but the last, so not at all for max_retries = 0.
C2_ServerErrorsExhaustRetries ==
    AllServerErrors =>
        /\ pc \in {"loop", "returned"}
        /\ pc = "returned" <=> Attempts = max_retries + 1
        /\ pc = "loop" => attempt = Attempts
        /\ pc = "returned" => result = Requests[Attempts].out
        /\ Len(Sleeps) = (IF pc = "returned" THEN Attempts - 1 ELSE Attempts)
        /\ max_retries = 0 => Len(Sleeps) = 0

C2_Witness ==
    /\ AllServerErrors
    /\ pc = "returned"
    /\ max_retries = MaxRetries
    /\ Attempts = MaxRetries + 1
    /\ result.status = 503

----------------------------------------------------------------------------
(* C3 *)

AllNetworkFailures ==
    Attempts >= 1 /\ \A k \in 1..Attempts : IsNetworkFailure(Requests[k].out)

\* C3: when every attempt fails with a RequestException, the dispatch makes
\* exactly max_retries + 1 attempts and then raises a RequestException that
\* carries the cause of the last attempt's failure.
C3_NetworkFailuresSurfaceLastCause ==
    AllNetworkFailures =>
        /\ pc \in {"loop", "raised"}
        /\ pc = "raised" <=> Attempts = max_retries + 1
        /\ pc = "loop" => attempt = Attempts
        /\ pc = "raised" =>
              /\ raised.exc = "RequestException"
              /\ raised.cause = Requests[Attempts].out.cause

C3_Witness ==
    /\ AllNetworkFailures
    /\ pc = "raised"
    /\ Attempts = MaxRetries + 1
    /\ Requests[1].out.cause = "Timeout"
    /\ Requests[Attempts].out.cause = "ConnectionError"
    /\ raised.cause = "ConnectionError"

----------------------------------------------------------------------------
(* C4 *)

\* the number of 429 responses the dispatch received first
LeadingRateLimits ==
    Cardinality({k \in 1..Attempts : \A j \in 1..k : IsRateLimit(Requests[j].out)})

\* the attempts so far are 429 responses followed by retryable failures only
RateLimitsThenFailures ==
    \A k \in (LeadingRateLimits + 1)..Attempts : IsRetryableFailure(Requests[k].out)

FailuresAfterRateLimits == Attempts - LeadingRateLimits

----------------------------------------------------------------------------
(* C5 *)

\* every attempt so far received a response, and every Retry-After header among
\* them is one int() and time.sleep() accept
OnlyResponses ==
    \A k \in 1..Attempts :
        /\ Requests[k].out.kind = "response"
        /\ Requests[k].out.status = 429 => IsRateLimit(Requests[k].out)

\* C5 as claimed: a dispatch in which every attempt yields an HTTP response (here
\* even: a response whose Retry-After header, if any, is a non-negative integer)
\* never raises, and the raise after the loop is never reached.
C5_Original_ResponsesNeverRaise ==
    /\ OnlyResponses => pc # "raised"
    /\ ~(pc = "raised" /\ raised.cause = "Max retries exceeded")

----------------------------------------------------------------------------
(* C6 *)

\* C6: after the k-th attempt of a dispatch (counted from 1) fails with a 5xx or
\* a network failure and another attempt follows, the dispatch sleeps exactly once
\* in between, for retry_delay * k; so with max_retries = 2 and a retry_delay of
\* one second the outcomes failure, failure, 200 give the sleeps 1 s, 2 s and the
\* 200 is returned.
C6_LinearBackoff ==
    /\ \A k \in 1..(Attempts - 1) :
          IsRetryableFailure(Requests[k].out) =>
              /\ Len(SleepsAfter(k)) = 1
              /\ SleepsAfter(k)[1].d = retry_delay * k
    /\ (/\ max_retries = 2 /\ retry_delay = Scale /\ Attempts = 3
        /\ IsNetworkFailure(Requests[1].out) /\ IsNetworkFailure(Requests[2].out)
        /\ Requests[3].out = Response(200, NoHeader)) =>
          /\ [i \in 1..Len(Sleeps) |-> Sleeps[i].d] = <<Scale, 2 * Scale>>
          /\ pc = "returned"
          /\ result = Response(200, NoHeader)

C6_Witness ==
    /\ max_retries = 2 /\ retry_delay = Scale /\ Attempts = 3
    /\ IsNetworkFailure(Requests[1].out) /\ IsNetworkFailure(Requests[2].out)
    /\ Requests[3].out = Response(200, NoHeader)
    /\ pc = "returned"

----------------------------------------------------------------------------
(* C7 *)

\* C7: after a 429 whose Retry-After header is the integer K, the dispatch
\* sleeps exactly once before the next attempt, for exactly K seconds, whatever
\* the attempt number and the retry_delay.
C7_RetryAfterHonoured ==
    \A k \in 1..(Attempts - 1) :
        (/\ Requests[k].out.kind = "response" /\ Requests[k].out.status = 429
         /\ Requests[k].out.retry_after \in DOMAIN IntLiterals) =>
            /\ Len(SleepsAfter(k)) = 1
            /\ SleepsAfter(k)[1].d = IntLiterals[Requests[k].out.retry_after] * Scale

C7_Witness ==
    /\ Attempts = 3
    /\ Requests[2].out = Response(429, "2")
    /\ SleepsAfter(2)[1].d = 2 * Scale
    /\ retry_delay * 2 # 2 * Scale
    /\ retry_delay # 2 * Scale

----------------------------------------------------------------------------
(* C8 *)

\* C8 as claimed: after a 429 without a Retry-After header the dispatch sleeps
\* for the configured retry_delay, fractional or not, and never for less.
C8_Original_DefaultDelayIsRetryDelay ==
    \A k \in 1..Attempts :
        Requests[k].out = Response(429, NoHeader) =>
            \A i \in 1..Len(SleepsAfter(k)) : SleepsAfter(k)[i].d = retry_delay

----------------------------------------------------------------------------
(* C9 *)

\* the header names among the per-request headers, compared as HTTP compares them
GivenNames == {Lower(headers[i][1]) : i \in 1..Len(headers)}

\* the per-request item that is written last for the name n
LastGiven(n) ==
    headers[CHOOSE i \in 1..Len(headers) :
                /\ Lower(headers[i][1]) = n
                /\ \A j \in (i + 1)..Len(headers) : Lower(headers[j][1]) # n]

\* hs are the client's default headers overridden by the per-request headers
IsMergeOfDefaults(hs) ==
    /\ DOMAIN hs = DOMAIN session_headers \cup GivenNames
    /\ \A n \in GivenNames : hs[n] = LastGiven(n)
    /\ \A n \in DOMAIN session_headers \ GivenNames : hs[n] = session_headers[n]

\* C9: every request of a dispatch is sent with the client's default headers
\* overridden by the per-request headers: a name present in both carries the
\* per-request value, a default that is not overridden keeps its value, and every
\* per-request name is sent.
C9_RequestHeadersOverrideDefaults ==
    Dispatching =>
        /\ IsMergeOfDefaults(request_headers)
        /\ \A i \in 1..Len(sent) : IsMergeOfDefaults(sent[i].headers)

C9_Witness ==
    /\ Len(sent) = 2
    /\ "authorization" \in DOMAIN session_headers
    /\ session_headers["authorization"] = <<"Authorization", Bearer(<<"abc">>)>>
    /\ "authorization" \in GivenNames
    /\ sent[2].headers["authorization"] = <<"authorization", <<"Basic ", "u">>>>
    /\ sent[2].headers["user-agent"] = session_headers["user-agent"]

----------------------------------------------------------------------------
(* C10 *)

\* C10 as claimed: after set_api_key(t), for any string t, the stored token is t,
\* the default Authorization header is 'Bearer ' + t, get_status() reports
\* has_api_key true, and the requests of the next dispatch carry
\* Authorization: Bearer t unless the per-request headers override it.
C10_Original_SetApiKey ==
    last_token # None =>
        /\ api_key = last_token
        /\ "authorization" \in DOMAIN session_headers
        /\ session_headers["authorization"] = <<"Authorization", Bearer(last_token)>>
        /\ get_status.has_api_key = TRUE
        /\ "authorization" \notin GivenNames =>
              \A i \in 1..Len(sent) :
                  sent[i].headers["authorization"] = <<"Authorization", Bearer(last_token)>>

----------------------------------------------------------------------------
(* C11 *)

\* C11 as claimed: has_api_key is true iff a token was supplied, through the
\* constructor or through set_api_key, whatever its value, the empty string
\* included; equivalently, iff the default headers carry an Authorization entry.
C11_Original_HasKeyIffTokenSupplied ==
    /\ get_status.has_api_key <=> api_key # None
    /\ get_status.has_api_key <=> "authorization" \in DOMAIN session_headers

----------------------------------------------------------------------------
(* C12 *)

StatusFields == {"base_url", "has_api_key", "timeout", "max_retries", "retry_delay"}

\* the snapshot of a client that differs from this one in its token only
StatusWithToken(t) == StatusOf(base_url, t, timeout, max_retries, retry_delay)

\* C12: get_status() does not leak the token: the snapshot returned by a client
\* with a non-empty token is the one every client returns that differs from it
\* only in the value of its non-empty token; the snapshot has exactly the fields
\* base_url, has_api_key, timeout, max_retries, retry_delay, and whatever the
\* token, only has_api_key depends on it.
C12_StatusHidesToken ==
    /\ (clean /\ Bool(api_key)) =>
          \A t \in Tokens \ {EmptyStr} : snapshot[1] = StatusWithToken(t)
    /\ \A t \in Tokens \cup {None} :
          /\ DOMAIN StatusWithToken(t) = StatusFields
          /\ \A f \in StatusFields \ {"has_api_key"} :
                StatusWithToken(t)[f] = get_status[f]
    /\ snapshot # <<>> => DOMAIN snapshot[1] = StatusFields

C12_Witness ==
    /\ clean
    /\ api_key = <<"abc">>
    /\ snapshot[1].has_api_key
    /\ snapshot[1] = StatusWithToken(<<"xyz">>)

----------------------------------------------------------------------------
(* C13 *)

\* C13: get_status() is a pure query: two consecutive calls with no setter call
\* in between return equal snapshots, a call leaves the client's state as it was,
\* and a snapshot that was returned is not changed by a later setter call.
C13_StatusIsPure ==
    /\ prev_status # <<>> => snapshot = prev_status
    /\ clean => clientVars = before
    /\ clean => snapshot[1] = get_status
    /\ snapshot = taken

C13_Witness ==
    /\ prev_status # <<>>
    /\ ~clean
    /\ snapshot[1].base_url # base_url
    /\ snapshot[1].has_api_key # get_status.has_api_key

----------------------------------------------------------------------------
(* C14 *)

Slashes(k) == [i \in 1..k |-> "/"]

\* C14: the stored base_url never ends with "/": it is the argument given to the
\* constructor or to set_base_url without its trailing "/" characters and
\* otherwise unchanged, and storing the stored value again changes nothing.
C14_BaseUrlHasNoTrailingSlash ==
    /\ base_url = EmptyStr \/ base_url[Len(base_url)] # "/"
    /\ \E k \in 0..Len(last_base) : last_base = base_url \o Slashes(k)
    /\ rstrip(base_url, "/") = base_url

\* set_base_url('http://h//') called on a client whose base_url was ''
C14_Witness ==
    /\ snapshot # <<>>
    /\ snapshot[1].base_url = EmptyStr
    /\ last_base = <<"http:", "/", "/", "h", "/", "/">>
    /\ base_url = <<"http:", "/", "/", "h">>

----------------------------------------------------------------------------
(* C17 *)

\* C17: initialize() without a base URL returns True and sends nothing; with a
\* base URL it sends exactly one GET to base_url + '/health', whatever
\* max_retries is, returns True for every response and False exactly when the
\* request raises; it never lets an exception through.
C17_InitializeNeverRaises ==
    health.called =>
        /\ health.base = EmptyStr => health.returned /\ health.sent = <<>>
        /\ health.base # EmptyStr =>
              /\ Len(health.sent) = 1
              /\ health.sent[1].method = "GET"
              /\ health.sent[1].url = health.base \o <<"/", "health">>
              /\ health.returned <=> health.out.kind = "response"
              /\ ~health.returned <=> health.out.kind = "exception"
        /\ ~health.propagated

C17_Witness ==
    /\ health.called
    /\ health.out.status = 503
    /\ health.returned
    /\ max_retries = MaxRetries
    /\ Len(health.sent) = 1


----------------------------------------------------------------------------
(* C15 *)

JsonEvents == SelectSeq(events, LAMBDA e : e.kind = "json")

StatusChecks == SelectSeq(events, LAMBDA e : e.kind = "raise_for_status")

\* C15: get_json and post_json run the whole retry dispatch first.  Then an
\* error status (>= 400) of the final response gives an HTTPError and the body is
\* never parsed; otherwise a body that is not valid JSON gives a parse error;
\* otherwise the parsed body is returned.  No value is ever returned for an
\* error-status response, and an exception of the dispatch passes through
\* unchanged.
C15_JsonAfterStatusCheck ==
    /\ pc = "json_returned" =>
          /\ result.kind = "response" /\ result.status < 400
          /\ result = Requests[Attempts].out
          /\ json_error = NoError
          /\ Len(JsonEvents) = 1
          /\ events[Len(events)].kind = "json"
          /\ events[Len(events) - 1].kind = "raise_for_status"
          /\ events[Len(events)].body \in DOMAIN JsonDocuments
          /\ json_value = JsonDocuments[events[Len(events)].body]
    /\ (pc = "json_raised" /\ result.kind = "response" /\ result.status >= 400) =>
          /\ json_error = [exc |-> "HTTPError", cause |-> "status"]
          /\ JsonEvents = <<>>
          /\ events[Len(events)].kind = "raise_for_status"
          /\ json_value = NoValue
    /\ (pc = "json_raised" /\ result.kind = "response" /\ result.status < 400) =>
          /\ json_error.exc = "JSONDecodeError"
          /\ Len(JsonEvents) = 1
          /\ events[Len(events)].kind = "json"
          /\ events[Len(events) - 1].kind = "raise_for_status"
          /\ events[Len(events)].body \notin DOMAIN JsonDocuments
          /\ json_value = NoValue
    /\ (pc = "json_raised" /\ result.kind # "response") =>
          /\ raised # NoError
          /\ json_error = raised
          /\ JsonEvents = <<>> /\ StatusChecks = <<>>
          /\ json_value = NoValue
    /\ pc \in {"json_returned", "json_raised"} =>
          /\ Attempts >= 1
          /\ Len(StatusChecks) <= 1
          /\ \A i \in 1..Len(events) :
                events[i].kind \in {"json", "raise_for_status"} => i > PosOfRequest(Attempts)
    /\ pc \notin {"json_returned", "json_raised"} =>
          /\ JsonEvents = <<>> /\ StatusChecks = <<>>
          /\ json_value = NoValue /\ json_error = NoError

\* a 503 that _make_request returned once the retries were used up became an
\* HTTPError of get_json / post_json
C15_Witness ==
    /\ pc = "json_raised"
    /\ max_retries = MaxRetries
    /\ Attempts = max_retries + 1
    /\ \A k \in 1..Attempts : Requests[k].out.status = 503
    /\ result.status = 503
    /\ json_error.exc = "HTTPError"

----------------------------------------------------------------------------
(* C16 *)

Debugs == SelectSeq(events, LAMBDA e : e.kind = "debug")

\* the traces and sleeps after the k-th attempt and before the next one
RetryTraceAfter(k) ==
    SelectSeq(SubSeq(events, PosOfRequest(k) + 1, PosOfRequest(k + 1) - 1),
              LAMBDA e : e.kind \in {"warning", "sleep"})

KindsOf(es) == [i \in 1..Len(es) |-> es[i].kind]

\* C16: every attempt is immediately preceded by one debug trace carrying the
\* method, the URL and the attempt's number, so the debug traces are as many as
\* the attempts and are numbered 1, 2, 3, ...; between two consecutive attempts
\* there is exactly one warning, then exactly one sleep, and the earlier attempt
\* ended in a 429, a 5xx or a network failure; no warning or sleep happens
\* without such an outcome.
C16_TraceOrdering ==
    /\ Len(Debugs) = Attempts
    /\ \A k \in 1..Attempts :
          /\ Debugs[k].n = k
          /\ Debugs[k].method = method
          /\ Debugs[k].url = url
          /\ PosOfRequest(k) > 1
          /\ events[PosOfRequest(k) - 1] = Debugs[k]
          /\ Requests[k].n = k
    /\ \A k \in 1..Attempts :
          /\ k < Attempts => KindsOf(RetryTraceAfter(k)) = <<"warning", "sleep">>
          /\ KindsOf(RetryTraceAfter(k)) \in {<<>>, <<"warning">>, <<"warning", "sleep">>}
          /\ RetryTraceAfter(k) # <<>> =>
                \/ IsRateLimited(Requests[k].out.status)
                \/ IsServerError(Requests[k].out)
                \/ IsNetworkFailure(Requests[k].out)
          /\ \A i \in 1..Len(RetryTraceAfter(k)) : RetryTraceAfter(k)[i].n = k

\* three attempts: a 429, then a network failure, then a 200
C16_Witness ==
    /\ pc = "returned"
    /\ Attempts = 3
    /\ Requests[1].out.status = 429
    /\ Requests[2].out.kind = "exception"
    /\ Requests[3].out.status = 200
    /\ Len(SelectSeq(events, LAMBDA e : e.kind = "warning")) = 2

----------------------------------------------------------------------------
(* C18 *)

\* the texts that are valid JSON objects, each with the mapping it denotes
ObjectOfText ==
    [t \in {"{}", "{\"a\": \"f1\"}", "{\"a\": \"f2\", \"b\": \"f1\"}",
            "{\"b\": \"f1\", \"b\": \"f2\"}"} |->
        CASE t = "{}" -> EmptyConfig
          [] t = "{\"a\": \"f1\"}" -> (<<"a">> :> "f1")
          [] t = "{\"a\": \"f2\", \"b\": \"f1\"}" -> (<<"a">> :> "f2") @@ (<<"b">> :> "f1")
          [] t = "{\"b\": \"f1\", \"b\": \"f2\"}" -> (<<"b">> :> "f2")]

\* the texts that are not JSON at all
InvalidTexts == {"{\"a\": ", ""}

\* the mapping a Config built from the environment alone holds
EnvOnly == LoadedEnv(EmptyConfig, environ, <<>>).config

\* C18: load_from_file on a missing file or on a file that is not valid JSON
\* raises ValueError and leaves the mapping exactly as it was; on a valid JSON
\* object it stores every key of the file, the file's values replacing the
\* existing ones and every other key staying as it was.  Config(path) with a
\* path that does not exist succeeds and loads nothing from a file.
C18_LoadFromFileAllOrNothing ==
    /\ (cfg_last.op = "load_from_file"
            /\ (files[cfg_last.path] = Missing \/ files[cfg_last.path] \in InvalidTexts)) =>
          /\ cfg_error = "ValueError"
          /\ config = cfg_before
    /\ (cfg_last.op = "load_from_file" /\ files[cfg_last.path] \in DOMAIN ObjectOfText) =>
          LET obj == ObjectOfText[files[cfg_last.path]]
          IN  /\ cfg_error = NoCfgError
              /\ DOMAIN config = DOMAIN cfg_before \cup DOMAIN obj
              /\ \A k \in DOMAIN obj : config[k] = obj[k]
              /\ \A k \in DOMAIN cfg_before \ DOMAIN obj : config[k] = cfg_before[k]
    /\ (cfg_last.op = "__init__" /\ cfg_last.path \in Paths /\ files[cfg_last.path] = Missing) =>
          /\ cfg_made
          /\ cfg_error = NoCfgError
          /\ config_file = cfg_last.path
          /\ config = EnvOnly

\* load_from_file of a truncated file on a Config that holds a value written
\* through set: ValueError, the value still there
C18_Witness ==
    /\ cfg_last.op = "load_from_file"
    /\ files[cfg_last.path] = "{\"a\": "
    /\ cfg_error = "ValueError"
    /\ <<"a">> \in DOMAIN config
    /\ config[<<"a">>] = "v2"

----------------------------------------------------------------------------
(* C19 *)

\* the keys asked for: written, loaded or neither
AskedKeys == Keys \cup {<<"d", "b">>, <<"c">>, <<>>}

Defaults == {"None", "dflt"}

Written(k) == \E i \in 1..Len(writes) : writes[i][1] = k

\* the value of the latest write of k
LastValue(k) ==
    LET last == CHOOSE i \in 1..Len(writes) :
                    /\ writes[i][1] = k
                    /\ \A j \in (i + 1)..Len(writes) : writes[j][1] # k
    IN  writes[last][2]

\* C19: Config is a last-write-wins map: get(k, d) is the value written latest
\* for k, or d when k was never written or loaded; k in config iff k was written
\* or loaded; config[k] is get(k) for a present key and KeyError for an absent
\* one; to_dict() has exactly the present keys with their current values; and a
\* write of one key leaves every other key as it was.
C19_LastWriteWins ==
    cfg_made =>
        /\ \A k \in AskedKeys \cup DOMAIN config :
              /\ \A d \in Defaults : Get(k, d) = IF Written(k) THEN LastValue(k) ELSE d
              /\ Contains(k) <=> Written(k)
              /\ Written(k) =>
                    /\ GetItem(k).error = NoCfgError
                    /\ \A d \in Defaults : GetItem(k).value = Get(k, d)
              /\ ~Written(k) => GetItem(k).error = "KeyError"
        /\ DOMAIN ToDict = {writes[i][1] : i \in 1..Len(writes)}
        /\ \A k \in DOMAIN ToDict : ToDict[k] = LastValue(k)
        /\ cfg_last.op \in {"set", "__setitem__"} =>
              /\ config[cfg_last.key] = cfg_last.value
              /\ DOMAIN config = DOMAIN cfg_before \cup {cfg_last.key}
              /\ \A j \in DOMAIN cfg_before \ {cfg_last.key} : config[j] = cfg_before[j]

\* a key written twice with different values, the second time through
\* config[k] = v, next to a key loaded from the file and a key never written
C19_Witness ==
    /\ cfg_made
    /\ cfg_last.op = "__setitem__"
    /\ cfg_last.key = <<"a">>
    /\ \E i \in 1..Len(writes) :
          /\ i < Len(writes)
          /\ writes[i][1] = <<"a">>
          /\ writes[i][2] # cfg_last.value
    /\ Contains(<<"b">>)
    /\ ~Contains(<<"c">>)

----------------------------------------------------------------------------
(* C20 *)

\* C20 as claimed: read_json after write_json(d, p) returns d, and read_text
\* after write_text(s, p) returns s, for every JSON value d and every string s;
\* the latest write to a path is the one that is read; read_json and read_text
\* of a path never written raise FileNotFoundError.
C20_Original_FileRoundTrips ==
    /\ (dp_last.op = "read_json" /\ dp_written[dp_last.path].kind = "json") =>
          dp_result = [value |-> dp_written[dp_last.path].value, error |-> "none"]
    /\ (dp_last.op = "read_text" /\ dp_written[dp_last.path].kind = "text") =>
          dp_result = [value |-> dp_written[dp_last.path].value, error |-> "none"]
    /\ (dp_last.op \in {"read_json", "read_text"} /\ dp_written[dp_last.path].kind = "none") =>
          dp_result.error = "FileNotFoundError"

----------------------------------------------------------------------------
(* C21 *)

\* what the claim calls valid: every key of the schema is in the data and its
\* value is an instance of the schema's type; data that is no dict has no keys
SatisfiesSchema(data, schema) ==
    \A key \in DOMAIN schema.members :
        /\ data.type = "dict"
        /\ key \in DOMAIN data.members
        /\ isinstance(data.members[key], schema.members[key])

\* C21 as claimed: validate_data returns False for None; with a schema given it
\* returns True iff every key of the schema is present in the data with a value
\* of the schema's type, whatever the non-None data is, so data that is not a
\* dict fails every non-empty schema.
C21_Original_ValidIffSchemaSatisfied ==
    vd_call.made =>
        /\ vd_call.data.type = "NoneType" => ~vd_result
        /\ (vd_call.data.type # "NoneType" /\ vd_call.schema.type # "NoneType") =>
              (vd_result <=> SatisfiesSchema(vd_call.data, vd_call.schema))

----------------------------------------------------------------------------
(* C22 *)

\* C22 as claimed: for every text, max_length >= 0 and suffix, the result is at
\* most max_length long; a text that fits is returned unchanged; otherwise the
\* result ends with the suffix and what precedes the suffix is a prefix of the
\* text.
C22_Original_TruncateFits ==
    tr_result # NoText =>
        /\ Len(tr_result) <= tr_call.max_length
        /\ Len(tr_call.text) <= tr_call.max_length => tr_result = tr_call.text
        /\ Len(tr_call.text) > tr_call.max_length =>
              \E n \in 0..Len(tr_call.text) :
                  tr_result = SubSeq(tr_call.text, 1, n) \o tr_call.suffix

----------------------------------------------------------------------------
(* C23 *)

\* C23 as claimed: whatever the endpoint is, every attempt requests base_url,
\* "/" and the endpoint without its leading "/" characters, so the request goes
\* to the scheme and host of base_url.
C23_Original_UrlIsBasePlusPath ==
    \A i \in 1..Len(sent) :
        /\ sent[i].url = base_url \o <<"/">> \o lstrip(endpoint, "/")
        /\ Authority(sent[i].url) = Authority(base_url)

----------------------------------------------------------------------------
(* C24 *)

\* C24: one call of _make_request makes at least one and at most
\* max_retries + 1 attempts, whatever the outcomes are; every attempt that is
\* retried, a 429 included, advances the loop counter, so a dispatch that only
\* receives 429 responses stops after max_retries + 1 attempts.
C24_AttemptBound ==
    /\ Attempts <= max_retries + 1
    /\ Len(sent) = Attempts
    /\ pc \in {"returned", "raised"} => Attempts >= 1
    /\ pc = "loop" => attempt = Attempts
    /\ (pc = "loop" /\ attempt > max_retries) => Attempts = max_retries + 1
    /\ (Dispatching /\ ~InLoop /\ \A k \in 1..Attempts : IsRateLimit(Requests[k].out)) =>
          Attempts = max_retries + 1

\* only 429 responses, with and without Retry-After: the dispatch ended after
\* max_retries + 1 attempts
C24_Witness ==
    /\ pc = "raised"
    /\ max_retries = MaxRetries
    /\ Attempts = MaxRetries + 1
    /\ \A k \in 1..Attempts : IsRateLimit(Requests[k].out)
    /\ Requests[1].out.retry_after = "2"
    /\ Requests[Attempts].out.retry_after = NoHeader

----------------------------------------------------------------------------
(* C25 *)

\* C25: when every request and every sleep completes, every call of
\* _make_request ends, returning a response or raising, whatever the outcomes
\* of its attempts are.
C25_DispatchTerminates == (pc = "loop") ~> (pc \in {"returned", "raised"})

\* a 429, a network failure and a 429 again used up the loop; the dispatch raised
C25_Witness ==
    /\ pc = "raised"
    /\ raised.cause = "Max retries exceeded"
    /\ Attempts = 3
    /\ Requests[1].out.status = 429
    /\ Requests[2].out.kind = "exception"
    /\ Requests[3].out.status = 429

----------------------------------------------------------------------------
(* C26 *)

\* C26 as claimed: every sleep is followed by another attempt: once the outcome of
\* the last attempt is known the dispatch returns or raises without sleeping.
C26_Original_NoSleepAfterFinalAttempt ==
    pc \in {"returned", "raised"} => SleepsAfter(Attempts) = <<>>

----------------------------------------------------------------------------
(* C27 *)

\* a 429 whose Retry-After header is present and is no integer literal
HasBadRetryAfter(o) ==
    /\ o.kind = "response" /\ o.status = 429
    /\ o.retry_after \in RetryAfterValues \ {"2", "-1"}

\* C27: a 429 whose Retry-After header is present and not an integer literal
\* ends the dispatch at once with a ValueError, with retries left or not: no
\* warning, no sleep and no attempt follow it, and the retry handler does not
\* count it.
C27_BadRetryAfterRaisesValueError ==
    \A k \in 1..Attempts :
        HasBadRetryAfter(Requests[k].out) =>
            /\ k = Attempts
            /\ pc = "raised"
            /\ raised.exc = "ValueError"
            /\ attempt = k - 1
            /\ \A i \in (PosOfRequest(k) + 1)..Len(events) :
                  events[i].kind \notin {"warning", "sleep", "request", "error"}

\* the first attempt of a dispatch with two retries left gets Retry-After: 1.5
C27_Witness ==
    /\ pc = "raised"
    /\ max_retries = 2
    /\ Attempts = 1
    /\ Requests[1].out.status = 429
    /\ Requests[1].out.retry_after = "1.5"
    /\ raised.exc = "ValueError"

----------------------------------------------------------------------------
(* C28 *)

\* C28: every attempt of a dispatch sends the same request: the method given,
\* the URL and the merged headers computed before the first attempt, and the
\* client's timeout; and no step of a dispatch, whether it returns or raises,
\* with per-request headers or without, changes the client's base_url, token,
\* default headers, timeout, max_retries or retry_delay.
C28_SameRequestClientUntouched ==
    /\ [](\A i \in 1..Len(sent) :
            /\ sent[i] = sent[1]
            /\ sent[i].method = method
            /\ sent[i].url = url
            /\ sent[i].headers = MergeHeaders(session_headers, headers)
            /\ sent[i].timeout = timeout)
    /\ [][(pc # "idle" \/ pc' # "idle") => UNCHANGED <<clientVars, last_token, last_base>>]_vars

\* a dispatch with a per-request header that overrides the Authorization
\* default was rate limited, timed out, and raised after three equal requests
C28_Witness ==
    /\ pc = "raised"
    /\ Len(sent) = 3
    /\ headers # <<>>
    /\ "authorization" \in DOMAIN session_headers
    /\ sent[3].headers["authorization"] # session_headers["authorization"]
    /\ Requests[1].out.status = 429
    /\ Requests[3].out.kind = "exception"

----------------------------------------------------------------------------
(* C29 *)

DefaultHeaders == ConstructorHeaders(None)

\* C29: set_api_key changes the token and the default Authorization header and
\* nothing else; set_base_url changes base_url and nothing else; so base_url is
\* what the last set_base_url stored, the token and the Authorization header are
\* those of the last set_api_key, and Content-Type, User-Agent, timeout,
\* max_retries and retry_delay stay as the constructor left them.
C29_SetterFrames ==
    /\ [](/\ base_url = rstrip(last_base, "/")
          /\ last_token # None =>
                /\ api_key = last_token
                /\ "authorization" \in DOMAIN session_headers
                /\ session_headers["authorization"] = <<"Authorization", Bearer(last_token)>>
          /\ DOMAIN session_headers \subseteq DOMAIN DefaultHeaders \cup {"authorization"}
          /\ \A n \in DOMAIN DefaultHeaders :
                n \in DOMAIN session_headers /\ session_headers[n] = DefaultHeaders[n])
    /\ [][/\ UNCHANGED <<timeout, max_retries, retry_delay>>
          /\ base_url' # base_url => UNCHANGED <<api_key, session_headers, last_token>>
          /\ last_base' # last_base => UNCHANGED <<api_key, session_headers, last_token>>
          /\ (api_key' # api_key \/ session_headers' # session_headers) =>
                /\ UNCHANGED <<base_url, last_base>>
                /\ \A n \in DOMAIN session_headers \ {"authorization"} :
                      n \in DOMAIN session_headers' /\ session_headers'[n] = session_headers[n]]_vars

\* a client built without base URL and token, queried, then given both: the
\* base URL was set after the token was
C29_Witness ==
    /\ snapshot # <<>>
    /\ snapshot[1].base_url = EmptyStr
    /\ ~snapshot[1].has_api_key
    /\ last_token = <<"xyz">>
    /\ last_base = <<"http:", "/", "/", "h", "/">>
    /\ base_url = <<"http:", "/", "/", "h">>
    /\ session_headers["authorization"] = <<"Authorization", Bearer(<<"xyz">>)>>
    /\ ~clean

----------------------------------------------------------------------------
(* C30 *)

\* the configuration key each environment variable is stored under, for the
\* variables that are loaded
KeyOfEnvName ==
    [n \in {EnvName("APP_A"), EnvName("APP_a"), EnvName("APP_Db"), EnvName("APP_")} |->
        CASE n = EnvName("APP_A") -> <<"a">>
          [] n = EnvName("APP_a") -> <<"a">>
          [] n = EnvName("APP_Db") -> <<"d", "b">>
          [] n = EnvName("APP_") -> <<>>]

EnvProvides(k) ==
    \E i \in 1..Len(environ) :
        environ[i][1] \in DOMAIN KeyOfEnvName /\ KeyOfEnvName[environ[i][1]] = k

\* the value of the last variable stored under k
EnvValue(k) ==
    LET last == CHOOSE i \in 1..Len(environ) :
                    /\ environ[i][1] \in DOMAIN KeyOfEnvName /\ KeyOfEnvName[environ[i][1]] = k
                    /\ \A j \in (i + 1)..Len(environ) :
                          ~(environ[j][1] \in DOMAIN KeyOfEnvName
                                /\ KeyOfEnvName[environ[j][1]] = k)
    IN  environ[last][2]

\* the object in the file the constructor was given, if the file exists
FileProvides ==
    IF cfg_last.path \in Paths /\ files[cfg_last.path] \in DOMAIN ObjectOfText
    THEN ObjectOfText[files[cfg_last.path]]
    ELSE EmptyConfig

\* C30: after Config(config_file) a key given by an 'APP_' environment variable
\* (prefix removed, lower-cased) has the environment's value, also when the file
\* gives the key too; a key given by the file only has the file's value; and
\* nothing else is in the configuration, so a variable without the prefix never
\* appears.
C30_EnvOverridesFile ==
    (cfg_made /\ cfg_last.op = "__init__") =>
        \A k \in AskedKeys \cup DOMAIN config \cup {<<"h", "o", "m", "e">>, <<"H", "O", "M", "E">>} :
            /\ EnvProvides(k) => k \in DOMAIN config /\ config[k] = EnvValue(k)
            /\ (~EnvProvides(k) /\ k \in DOMAIN FileProvides) =>
                  k \in DOMAIN config /\ config[k] = FileProvides[k]
            /\ (~EnvProvides(k) /\ k \notin DOMAIN FileProvides) => k \notin DOMAIN config

\* the file gives a and b, the environment HOME and APP_A: a is the
\* environment's, b the file's
C30_Witness ==
    /\ cfg_made
    /\ cfg_last.op = "__init__"
    /\ cfg_last.path = "conf.json"
    /\ files["conf.json"] = "{\"a\": \"f2\", \"b\": \"f1\"}"
    /\ environ = <<<<EnvName("HOME"), "e1">>, <<EnvName("APP_A"), "e1">>>>
    /\ config = (<<"a">> :> "e1") @@ (<<"b">> :> "f1")


====
